---- MODULE Spec2Model ----
(***************************************************************************)
(* A model of the HTTP-file parsing pipeline of http-parser:               *)
(*   LineScanner.scan -> Segmenter.segment -> VariableScanner.scan ->      *)
(*   SegmentClassifier.classify -> SegmentParser.parseSegment ->           *)
(*   HttpRequestParser.linkResponses -> HttpRequestParser.buildResult.     *)
(*                                                                         *)
(* A JavaScript string is a sequence of one-character strings, so that     *)
(* trim, split, startsWith, slice and the regular expressions of the       *)
(* source are computed character by character.  Offsets are 0-based as in  *)
(* the source; Slice converts to the 1-based sequences of TLA+.            *)
(* A nullable value is a sequence of length 0 (null) or 1.                 *)
(***************************************************************************)
EXTENDS Integers, Sequences, FiniteSets, TLC

\* ------------------------------------------------------------------------
\* Bounds of the explored inputs
\* ------------------------------------------------------------------------
\* longest raw text given to LineScanner.scan in SpecScan
MaxLen == 4
\* largest number of lines of a document given to the Segmenter in SpecSeg
MaxLines == 5
\* largest number of delimiter-separated blocks of a document in Spec
MaxBlocks == 3

VARIABLES
  pc,                 \* position of parseText in its pipeline
  text,               \* the raw input text
  options,            \* HttpRequestParser.options ([strict |-> BOOLEAN])
  lineContexts,       \* result of step 1 (LineScanner.scan)
  segments,           \* result of step 2 (Segmenter.segment)
  scanResult,         \* result of step 3 (VariableScanner.scan)
  registry,           \* the VariableRegistry populated in parseText
  classifiedSegments, \* result of step 4 (SegmentClassifier.classify)
  parsedNodes,        \* nodes produced so far by step 5 (parseSegments)
  linkIndex,          \* number of nodes already visited by linkResponses
  requests,           \* the requests array of linkResponses
  lastRequest,        \* linkResponses' lastRequest: index in requests, 0 = null
  warnings,           \* lines of the console.warn calls (strict mode)
  result,             \* the ParseResult, <<>> until built
  error,              \* message of the Error that left parseText, <<>> if none
  pending,            \* texts of the parseText calls that are still to come
  history,            \* text and outcome of every parseText call that ended
  input,              \* arguments of a component that is called on its own
  output,             \* what that component returned, <<>> before the call
  incrementalState    \* HttpRequestParser.incrementalState (buffer, finalized)

vars == <<pc, text, options, lineContexts, segments, scanResult, registry,
          classifiedSegments, parsedNodes, linkIndex, requests, lastRequest,
          warnings, result, error, pending, history, input, output,
          incrementalState>>

\* what a step of one parseText call leaves alone
callContext == <<pending, history, input, output, incrementalState>>

\* ------------------------------------------------------------------------
\* JavaScript string primitives on character sequences
\* ------------------------------------------------------------------------
\* s.slice(a, b) for 0 <= a, b (0-based, b exclusive, clamped to the length)
Slice(s, a, b) == SubSeq(s, a + 1, IF b > Len(s) THEN Len(s) ELSE b)

\* the characters matched by \s (and removed by trim) that the inputs contain
IsSpace(c) == c \in {" ", "\t", "\n", "\r"}

RECURSIVE TrimStart(_)
TrimStart(s) ==
  IF s # <<>> /\ IsSpace(Head(s)) THEN TrimStart(Tail(s)) ELSE s

RECURSIVE TrimEnd(_)
TrimEnd(s) ==
  IF s # <<>> /\ IsSpace(s[Len(s)]) THEN TrimEnd(SubSeq(s, 1, Len(s) - 1))
  ELSE s

Trim(s) == TrimEnd(TrimStart(s))

StartsWith(s, p) == Len(s) >= Len(p) /\ SubSeq(s, 1, Len(p)) = p

LowerLetters ==
  <<"a","b","c","d","e","f","g","h","i","j","k","l","m",
    "n","o","p","q","r","s","t","u","v","w","x","y","z">>
UpperLetters ==
  <<"A","B","C","D","E","F","G","H","I","J","K","L","M",
    "N","O","P","Q","R","S","T","U","V","W","X","Y","Z">>
Digits == {"0","1","2","3","4","5","6","7","8","9"}

UpperChar(c) ==
  IF \E i \in 1..26 : LowerLetters[i] = c
  THEN UpperLetters[CHOOSE i \in 1..26 : LowerLetters[i] = c] ELSE c
LowerChar(c) ==
  IF \E i \in 1..26 : UpperLetters[i] = c
  THEN LowerLetters[CHOOSE i \in 1..26 : UpperLetters[i] = c] ELSE c
ToUpperCase(s) == [i \in 1..Len(s) |-> UpperChar(s[i])]
ToLowerCase(s) == [i \in 1..Len(s) |-> LowerChar(s[i])]

\* the characters matched by \w
IsWordChar(c) ==
  \/ \E i \in 1..26 : LowerLetters[i] = c \/ UpperLetters[i] = c
  \/ c \in Digits
  \/ c = "_"

\* length of the longest prefix of s whose characters satisfy the class
RECURSIVE SpanSpace(_)
SpanSpace(s) == IF s # <<>> /\ IsSpace(Head(s)) THEN 1 + SpanSpace(Tail(s)) ELSE 0
RECURSIVE SpanChar(_, _)
SpanChar(s, c) == IF s # <<>> /\ Head(s) = c THEN 1 + SpanChar(Tail(s), c) ELSE 0
RECURSIVE SpanWord(_)
SpanWord(s) == IF s # <<>> /\ IsWordChar(Head(s)) THEN 1 + SpanWord(Tail(s)) ELSE 0
RECURSIVE SpanNonSpace(_)
SpanNonSpace(s) ==
  IF s # <<>> /\ ~IsSpace(Head(s)) THEN 1 + SpanNonSpace(Tail(s)) ELSE 0

Drop(s, n) == SubSeq(s, n + 1, Len(s))

\* s.split(/\s+/) of a trimmed, non-empty s
RECURSIVE SplitWS(_)
SplitWS(s) ==
  IF s = <<>> THEN <<>>
  ELSE LET n == SpanNonSpace(s)
           rest == Drop(s, n)
       IN <<SubSeq(s, 1, n)>> \o SplitWS(Drop(rest, SpanSpace(rest)))

LF == <<"\n">>

\* lines.join(sep)
RECURSIVE Join(_, _)
Join(ls, sep) ==
  IF ls = <<>> THEN <<>>
  ELSE IF Len(ls) = 1 THEN ls[1]
  ELSE ls[1] \o sep \o Join(Tail(ls), sep)

\* ------------------------------------------------------------------------
\* LineScanner (scanner/line-scanner.ts)
\* ------------------------------------------------------------------------
LineContext(n, s, e, t) ==
  [lineNumber |-> n, startOffset |-> s, endOffset |-> e, text |-> t]

\* the inner while loop: the end of the line that starts at lineEnd
RECURSIVE FindLineEnd(_, _)
FindLineEnd(t, lineEnd) ==
  IF lineEnd < Len(t) /\ t[lineEnd + 1] # "\n" /\ t[lineEnd + 1] # "\r"
  THEN FindLineEnd(t, lineEnd + 1)
  ELSE lineEnd

\* a line break always skips two characters
MoveLineBreak_skipTwo(t, lineEnd) == lineEnd + 2

\* a line feed after a carriage return is taken for a break of its own
MoveLineBreak_splitCRLF(t, lineEnd) == lineEnd + 1

\* "Move past the line break": the value given to i when a break is at lineEnd
MoveLineBreak(t, lineEnd) ==
  IF t[lineEnd + 1] = "\r" /\ lineEnd + 1 < Len(t) /\ t[lineEnd + 2] = "\n"
  THEN lineEnd + 2
  ELSE lineEnd + 1

\* the outer while loop of scan, from the state (lineNumber, startOffset, i)
RECURSIVE ScanLoop(_, _, _, _)
ScanLoop(t, lineNumber, startOffset, i) ==
  IF ~(i <= Len(t)) THEN <<>>
  ELSE LET lineEnd == FindLineEnd(t, i)
           line == LineContext(lineNumber, startOffset, lineEnd,
                               Slice(t, startOffset, lineEnd))
       IN IF lineEnd < Len(t)
          THEN <<line>> \o ScanLoop(t, lineNumber + 1,
                                    MoveLineBreak(t, lineEnd),
                                    MoveLineBreak(t, lineEnd))
          ELSE <<line>>

LineScanner_scan(t) ==
  IF Len(t) = 0 THEN <<LineContext(1, 0, 0, <<>>)>>
  ELSE ScanLoop(t, 1, 0, 0)

\* ------------------------------------------------------------------------
\* Segmenter (segmenter/segmenter.ts)
\* ------------------------------------------------------------------------
\* the delimiter test accepts exactly three '#'
isDelimiter_exactlyThree(t) == Trim(t) = <<"#", "#", "#">>

\* DELIMITER_PATTERN.test(text), DELIMITER_PATTERN = /^\s*#{3,}\s*$/
isDelimiter(t) ==
  LET a == Drop(t, SpanSpace(t))
      n == SpanChar(a, "#")
      b == Drop(a, n)
  IN n >= 3 /\ Drop(b, SpanSpace(b)) = <<>>

createSegment(segmentId, ls) ==
  [segmentId |-> segmentId,
   startLine |-> IF ls # <<>> THEN ls[1].lineNumber ELSE 0,
   endLine   |-> IF ls # <<>> THEN ls[Len(ls)].lineNumber ELSE 0,
   lines     |-> ls]

\* the filter keeps every segment that has a line, blank or not
hasNonEmptyLines_anyLine(seg) == Len(seg.lines) > 0

hasNonEmptyLines(seg) ==
  \E i \in 1..Len(seg.lines) : Len(Trim(seg.lines[i].text)) > 0

\* "When we hit a delimiter, finalize the current segment if it has content"
CloseSegment(segs, current, segmentId) ==
  IF Len(current) > 0
  THEN [segs |-> Append(segs, createSegment(segmentId, current)),
        segmentId |-> segmentId + 1]
  ELSE [segs |-> segs, segmentId |-> segmentId]

\* the for loop of segment and the push of the last segment that follows it
RECURSIVE SegmentLoop(_, _, _, _, _)
SegmentLoop(ls, k, segs, current, segmentId) ==
  IF k > Len(ls)
  THEN CloseSegment(segs, current, segmentId).segs
  ELSE IF isDelimiter(ls[k].text)
       THEN LET c == CloseSegment(segs, current, segmentId)
            IN SegmentLoop(ls, k + 1, c.segs, <<>>, c.segmentId)
       ELSE SegmentLoop(ls, k + 1, segs, Append(current, ls[k]), segmentId)

Segmenter_segment(ls) ==
  SelectSeq(SegmentLoop(ls, 1, <<>>, <<>>, 0), hasNonEmptyLines)

\* ------------------------------------------------------------------------
\* VariableScanner and VariableRegistry (scanner/variable-scanner.ts)
\* ------------------------------------------------------------------------
None == <<>>
Some(x) == <<x>>

\* s.indexOf(c) + 1: the 1-based position of the first c in s, 0 if none
IndexOf(s, c) ==
  IF \E i \in 1..Len(s) : s[i] = c
  THEN CHOOSE i \in 1..Len(s) : s[i] = c /\ \A j \in 1..(i - 1) : s[j] # c
  ELSE 0

Includes(s, c) == \E i \in 1..Len(s) : s[i] = c

\* the key of the file variable a line defines: "@variableName = value" with
\* no space in the name; None when the line is not such a definition
FileVariableKey(lineText) ==
  LET t == Trim(lineText)
      equalIndex == IndexOf(t, "=")
      key == Trim(SubSeq(t, 2, equalIndex - 1))
  IN IF StartsWith(t, <<"@">>) /\ equalIndex > 0 /\ ~Includes(key, " ")
     THEN Some(key) ELSE None

\* A FileVariable of the model has the key, the line number and the segment
\* id of the definition; its value takes no part in any scope rule.
FileVariable(key, lineNumber, segmentId) ==
  [key |-> key, lineNumber |-> lineNumber, segmentId |-> segmentId]

RECURSIVE ScanSegmentLines(_, _, _)
ScanSegmentLines(ls, k, segmentId) ==
  IF k > Len(ls) THEN <<>>
  ELSE LET key == FileVariableKey(ls[k].text)
       IN (IF key # None
           THEN <<FileVariable(key[1], ls[k].lineNumber, Some(segmentId))>>
           ELSE <<>>)
          \o ScanSegmentLines(ls, k + 1, segmentId)

\* VariableScanner.scan(segments).fileVariables: the definitions of all the
\* segments in document order, each tagged with the id of its segment
RECURSIVE VariableScanner_scan(_)
VariableScanner_scan(segs) ==
  IF segs = <<>> THEN <<>>
  ELSE ScanSegmentLines(segs[1].lines, 1, segs[1].segmentId)
       \o VariableScanner_scan(Tail(segs))

\* the registry after parseText has stored the scanned definitions
PopulateRegistry(fileVariables) ==
  [variables |->
     {fileVariables[i].key : i \in
        {j \in 1..Len(fileVariables) : fileVariables[j].segmentId = None}},
   segmentVariables |->
     {<<fileVariables[i].segmentId[1], fileVariables[i].key>> : i \in
        {j \in 1..Len(fileVariables) : fileVariables[j].segmentId # None}}]

\* the registry of the previous call is used again
VariableRegistry_reused(previous) == previous

\* new VariableRegistry(): the registry parseText creates, whatever the
\* registry of a previous call holds
VariableRegistry_new(previous) == [variables |-> {}, segmentVariables |-> {}]

\* the registry base after the for loop of parseText has stored the scanned
\* definitions in it
RegistryWith(base, fileVariables) ==
  [variables |->
     base.variables \cup PopulateRegistry(fileVariables).variables,
   segmentVariables |->
     base.segmentVariables \cup PopulateRegistry(fileVariables).segmentVariables]

\* ------------------------------------------------------------------------
\* SegmentClassifier (segmenter/classifier.ts)
\* ------------------------------------------------------------------------
\* the test both the classifier and the segment parser apply to a line:
\* not blank, not starting with '#', not starting with '@'
IsSignificantText(lineText) ==
  LET trimmed == Trim(lineText)
  IN /\ Len(trimmed) > 0
     /\ ~StartsWith(trimmed, <<"#">>)
     /\ ~StartsWith(trimmed, <<"@">>)

\* index of the first significant line, 0 if there is none
FirstSignificant(ls) ==
  IF \E i \in 1..Len(ls) : IsSignificantText(ls[i].text)
  THEN CHOOSE i \in 1..Len(ls) :
         /\ IsSignificantText(ls[i].text)
         /\ \A j \in 1..(i - 1) : ~IsSignificantText(ls[j].text)
  ELSE 0

\* the status-line prefix compared without folding the case
detectMessageType_caseSensitive(lineText) ==
  IF StartsWith(TrimStart(lineText), <<"H", "T", "T", "P", "/">>)
  THEN "response" ELSE "request"

detectMessageType(lineText) ==
  IF StartsWith(ToUpperCase(TrimStart(lineText)), <<"H", "T", "T", "P", "/">>)
  THEN "response" ELSE "request"

\* /^x-request-type:\s*graphql\s*$/i
IsGraphQLHeader(lineText) ==
  LET l == ToLowerCase(lineText)
      a == Drop(l, Len(<<"x", "-", "r", "e", "q", "u", "e", "s", "t", "-", "t", "y", "p", "e", ":">>))
      b == Drop(a, SpanSpace(a))
      c == Drop(b, Len(<<"g", "r", "a", "p", "h", "q", "l">>))
  IN /\ StartsWith(l, <<"x", "-", "r", "e", "q", "u", "e", "s", "t", "-", "t", "y", "p", "e", ":">>)
     /\ StartsWith(b, <<"g", "r", "a", "p", "h", "q", "l">>)
     /\ Drop(c, SpanSpace(c)) = <<>>

\* the loop over the lines that follow the anchor, from index i
RECURSIVE GraphQLHeaderFrom(_, _)
GraphQLHeaderFrom(ls, i) ==
  IF i > Len(ls) THEN FALSE
  ELSE LET lineText == Trim(ls[i].text)
       IN IF Len(lineText) = 0 THEN FALSE
          ELSE IF IsGraphQLHeader(lineText) THEN TRUE
          ELSE GraphQLHeaderFrom(ls, i + 1)

detectSegmentType(ls, significantLineIndex) ==
  IF StartsWith(ToLowerCase(TrimStart(ls[significantLineIndex].text)), <<"c", "u", "r", "l">>)
  THEN "curl"
  ELSE IF GraphQLHeaderFrom(ls, significantLineIndex + 1) THEN "graphql"
  ELSE "http"

classifySegment(seg) ==
  LET i == FirstSignificant(seg.lines)
  IN IF i = 0
     THEN [segmentId |-> seg.segmentId, startLine |-> seg.startLine,
           endLine |-> seg.endLine, lines |-> seg.lines,
           messageType |-> "request", segmentType |-> "http",
           firstNonEmptyLine |->
             [lineNumber |-> seg.startLine, text |-> <<>>]]
     ELSE [segmentId |-> seg.segmentId, startLine |-> seg.startLine,
           endLine |-> seg.endLine, lines |-> seg.lines,
           messageType |-> detectMessageType(seg.lines[i].text),
           segmentType |-> detectSegmentType(seg.lines, i),
           firstNonEmptyLine |->
             [lineNumber |-> seg.lines[i].lineNumber,
              text |-> seg.lines[i].text]]

SegmentClassifier_classify(segs) ==
  [i \in 1..Len(segs) |-> classifySegment(segs[i])]

\* ------------------------------------------------------------------------
\* HTTPRequestLineParser (parsers/request-line.ts)
\* ------------------------------------------------------------------------
VALID_HTTP_METHODS ==
  { <<"G", "E", "T">>, <<"H", "E", "A", "D">>, <<"O", "P", "T", "I", "O", "N", "S">>, <<"T", "R", "A", "C", "E">>, <<"P", "U", "T">>, <<"D", "E", "L", "E", "T", "E">>,
    <<"P", "O", "S", "T">>, <<"P", "A", "T", "C", "H">>, <<"C", "O", "N", "N", "E", "C", "T">> }

isValidHttpMethod(method) == ToUpperCase(method) \in VALID_HTTP_METHODS

validate(line) ==
  LET parts == SplitWS(Trim(line))
  IN IF Len(Trim(line)) = 0 THEN FALSE
     ELSE IF Len(parts) = 1 THEN TRUE
     ELSE isValidHttpMethod(parts[1])

Thrown(message) == [threw |-> TRUE, message |-> message]
Returned(value) == [threw |-> FALSE, value |-> value]

\* any third token is taken for the version
extractHttpVersion_anyThirdToken(parts) ==
  IF Len(parts) < 3 THEN None ELSE Some(parts[3])

extractHttpVersion(parts) ==
  IF Len(parts) < 3 THEN None
  ELSE IF ~StartsWith(parts[3], <<"H", "T", "T", "P", "/">>) THEN None
  ELSE Some(parts[3])

\* parse returns a ParsedHTTPRequestLine or throws an Error
HTTPRequestLineParser_parse(line) ==
  IF ~validate(line) THEN Thrown("Invalid request line")
  ELSE LET parts == SplitWS(Trim(line))
           firstPart == parts[1]
           looksLikeUrl ==
             \/ StartsWith(firstPart, <<"h", "t", "t", "p", ":", "/", "/">>)
             \/ StartsWith(firstPart, <<"h", "t", "t", "p", "s", ":", "/", "/">>)
             \/ ~isValidHttpMethod(firstPart)
       IN IF looksLikeUrl /\ Len(parts) = 1
          THEN Returned([method |-> None, url |-> firstPart,
                         httpVersion |-> None])
          ELSE IF ~isValidHttpMethod(parts[1])
               THEN Thrown("Invalid HTTP method")
          ELSE IF Len(parts) < 2
               THEN Thrown("URL not found in request line")
          ELSE Returned([method |-> Some(ToUpperCase(parts[1])),
                         url |-> parts[2],
                         httpVersion |-> extractHttpVersion(parts)])

\* ------------------------------------------------------------------------
\* ResponseLineParser (parsers/response-line.ts)
\* ------------------------------------------------------------------------
DigitValue(c) == CHOOSE n \in 0..9 : <<"0","1","2","3","4","5","6","7","8","9">>[n + 1] = c

RECURSIVE DecimalValue(_)
DecimalValue(ds) ==
  IF ds = <<>> THEN 0
  ELSE DecimalValue(SubSeq(ds, 1, Len(ds) - 1)) * 10 + DigitValue(ds[Len(ds)])

\* parseInt(p, 10) alone decides: leading zeros pass
IsIntegerToken_leadingZeros(p) ==
  LET ds == IF p # <<>> /\ Head(p) = "-" THEN Tail(p) ELSE p
  IN /\ ds # <<>>
     /\ \A i \in 1..Len(ds) : ds[i] \in Digits

\* !isNaN(parseInt(p, 10)) && String(parseInt(p, 10)) === p
IsIntegerToken(p) ==
  LET ds == IF p # <<>> /\ Head(p) = "-" THEN Tail(p) ELSE p
  IN /\ ds # <<>>
     /\ \A i \in 1..Len(ds) : ds[i] \in Digits
     /\ Len(ds) > 1 => ds[1] # "0"
     /\ Head(p) = "-" => ds # <<"0">>

IntegerValue(p) ==
  IF Head(p) = "-" THEN 0 - DecimalValue(Tail(p)) ELSE DecimalValue(p)

ResponseLineParser_parse(lineText) ==
  LET trimmed == Trim(lineText)
      parts == SplitWS(trimmed)
      hasVersion == StartsWith(ToUpperCase(parts[1]), <<"H", "T", "T", "P", "/">>)
      afterVersion == IF hasVersion THEN 2 ELSE 1
      hasCode == afterVersion <= Len(parts) /\ IsIntegerToken(parts[afterVersion])
      afterCode == IF hasCode THEN afterVersion + 1 ELSE afterVersion
  IN IF trimmed = <<>>
     THEN [httpVersion |-> None, statusCode |-> None, statusText |-> None]
     ELSE [httpVersion |-> IF hasVersion THEN Some(ToUpperCase(parts[1])) ELSE None,
           statusCode |-> IF hasCode THEN Some(IntegerValue(parts[afterVersion])) ELSE None,
           statusText |-> IF afterCode <= Len(parts)
                          THEN Some(Join(SubSeq(parts, afterCode, Len(parts)), <<" ">>))
                          ELSE None]

\* ------------------------------------------------------------------------
\* QueryParser (parsers/query-parser.ts)
\* ------------------------------------------------------------------------
\* the marker is looked for at the very start of the line
IsQueryLine_untrimmed(lineText) ==
  StartsWith(lineText, <<"?">>) \/ StartsWith(lineText, <<"&">>)

IsQueryLine(lineText) ==
  StartsWith(Trim(lineText), <<"?">>) \/ StartsWith(Trim(lineText), <<"&">>)

\* the parameters one matching line contributes (none when it is a bare ? or &)
QueryParamsOf(lineText) ==
  LET content == Trim(Tail(Trim(lineText)))
      eq == IndexOf(content, "=")
  IN IF content = <<>> THEN <<>>
     ELSE IF eq > 0
          THEN <<[key |-> Trim(SubSeq(content, 1, eq - 1)),
                  value |-> Trim(Drop(content, eq))]>>
          ELSE <<[key |-> content, value |-> <<>>]>>

RECURSIVE QueryParser_parse(_)
QueryParser_parse(ls) ==
  IF ls = <<>> \/ ~IsQueryLine(ls[1].text)
  THEN [queryParams |-> <<>>, consumedLinesCount |-> 0]
  ELSE LET rest == QueryParser_parse(Tail(ls))
       IN [queryParams |-> QueryParamsOf(ls[1].text) \o rest.queryParams,
           consumedLinesCount |-> 1 + rest.consumedLinesCount]

\* ------------------------------------------------------------------------
\* HeaderParser (parsers/header-parser.ts)
\* ------------------------------------------------------------------------
\* a header is pushed for every line with a colon, whatever its name
HeaderOf_anyName(lineText) ==
  LET colon == IndexOf(lineText, ":")
  IN <<[name |-> Trim(SubSeq(lineText, 1, colon - 1)),
        value |-> Trim(Drop(lineText, colon))]>>

\* the headers one line with a colon contributes (none when the name is
\* empty)
HeaderOf(lineText) ==
  LET colon == IndexOf(lineText, ":")
      name == Trim(SubSeq(lineText, 1, colon - 1))
  IN IF name # <<>>
     THEN <<[name |-> name, value |-> Trim(Drop(lineText, colon))]>>
     ELSE <<>>

RECURSIVE HeaderParser_parse(_)
HeaderParser_parse(ls) ==
  IF ls = <<>> \/ Trim(ls[1].text) = <<>> \/ IndexOf(ls[1].text, ":") = 0
  THEN [headers |-> <<>>, consumedLinesCount |-> 0]
  ELSE LET rest == HeaderParser_parse(Tail(ls))
       IN [headers |-> HeaderOf(ls[1].text) \o rest.headers,
           consumedLinesCount |-> 1 + rest.consumedLinesCount]

\* ------------------------------------------------------------------------
\* CurlParser (parsers/curl-parser.ts)
\* ------------------------------------------------------------------------
\* index of the first line that is not blank, 0 if there is none
FirstNonEmpty(ls) ==
  IF \E i \in 1..Len(ls) : Trim(ls[i].text) # <<>>
  THEN CHOOSE i \in 1..Len(ls) :
         /\ Trim(ls[i].text) # <<>>
         /\ \A j \in 1..(i - 1) : Trim(ls[j].text) = <<>>
  ELSE 0

\* the command merged from the line i on: a line that ends with a backslash
\* is continued by the next one
RECURSIVE MergeCommand(_, _)
MergeCommand(ls, i) ==
  IF i > Len(ls) THEN [fullCommand |-> <<>>, count |-> 0]
  ELSE LET trimmedLine == Trim(ls[i].text)
       IN IF trimmedLine # <<>> /\ trimmedLine[Len(trimmedLine)] = "\\"
          THEN LET rest == MergeCommand(ls, i + 1)
               IN [fullCommand |-> SubSeq(trimmedLine, 1, Len(trimmedLine) - 1)
                                     \o <<" ">> \o rest.fullCommand,
                   count |-> 1 + rest.count]
          ELSE [fullCommand |-> trimmedLine, count |-> 1]

\* the options of the commands that take a value, by the key yargs-parser
\* stores them under
CurlOptionKeys ==
  { <<<<"-", "H">>, <<"H">>>>, <<<<"-", "-", "h", "e", "a", "d", "e", "r">>, <<"h", "e", "a", "d", "e", "r">>>>,
    <<<<"-", "X">>, <<"X">>>>, <<<<"-", "-", "r", "e", "q", "u", "e", "s", "t">>, <<"r", "e", "q", "u", "e", "s", "t">>>>,
    <<<<"-", "d">>, <<"d">>>>, <<<<"-", "-", "d", "a", "t", "a">>, <<"d", "a", "t", "a">>>>,
    <<<<"-", "-", "d", "a", "t", "a", "-", "r", "a", "w">>, <<"d", "a", "t", "a", "-", "r", "a", "w">>>>, <<<<"-", "-", "d", "a", "t", "a", "-", "b", "i", "n", "a", "r", "y">>, <<"d", "a", "t", "a", "-", "b", "i", "n", "a", "r", "y">>>>,
    <<<<"-", "-", "d", "a", "t", "a", "-", "u", "r", "l", "e", "n", "c", "o", "d", "e">>, <<"d", "a", "t", "a", "-", "u", "r", "l", "e", "n", "c", "o", "d", "e">>>> }

IsCurlOption(token) == \E o \in CurlOptionKeys : o[1] = token
CurlOptionKey(token) == (CHOOSE o \in CurlOptionKeys : o[1] = token)[2]

\* yargsParser(curlArgs) for arguments without quotes, made of the options
\* above, each followed by its value, and of positional tokens: the option
\* values in command order as [key, value] and the positional tokens (argv._)
RECURSIVE yargsParser(_)
yargsParser(tokens) ==
  IF tokens = <<>> THEN [options |-> <<>>, positional |-> <<>>]
  ELSE IF IsCurlOption(tokens[1]) /\ Len(tokens) >= 2
  THEN LET rest == yargsParser(Drop(tokens, 2))
       IN [options |-> <<[key |-> CurlOptionKey(tokens[1]), value |-> tokens[2]]>>
                         \o rest.options,
           positional |-> rest.positional]
  ELSE LET rest == yargsParser(Tail(tokens))
       IN [options |-> rest.options,
           positional |-> <<tokens[1]>> \o rest.positional]

\* argv[key] as an array: the values given for the key, in order
ArgvValues(argv, key) ==
  LET given == SelectSeq(argv.options, LAMBDA o : o.key = key)
  IN [i \in 1..Len(given) |-> given[i].value]

\* argv[a] || argv[b]
ArgvEither(argv, a, b) ==
  IF ArgvValues(argv, a) # <<>> THEN ArgvValues(argv, a) ELSE ArgvValues(argv, b)

\* the headers of the values of -H/--header that contain a colon
RECURSIVE CurlHeaders(_)
CurlHeaders(rawHeaders) ==
  IF rawHeaders = <<>> THEN <<>>
  ELSE LET h == rawHeaders[1]
           colon == IndexOf(h, ":")
       IN (IF h # <<>> /\ colon > 0
           THEN <<[name |-> Trim(SubSeq(h, 1, colon - 1)),
                   value |-> Trim(Drop(h, colon))]>>
           ELSE <<>>) \o CurlHeaders(Tail(rawHeaders))

\* the last value of the first of the data keys that was given, None if
\* none was
CurlBody(argv) ==
  LET bodyKeys == <<<<"d">>, <<"d", "a", "t", "a">>, <<"d", "a", "t", "a", "-", "r", "a", "w">>, <<"d", "a", "t", "a", "-", "b", "i", "n", "a", "r", "y">>, <<"d", "a", "t", "a", "-", "u", "r", "l", "e", "n", "c", "o", "d", "e">>>>
      given == {k \in 1..Len(bodyKeys) : ArgvValues(argv, bodyKeys[k]) # <<>>}
      first == CHOOSE k \in given : \A j \in given : k <= j
      values == ArgvValues(argv, bodyKeys[first])
  IN IF given = {} THEN None ELSE Some(values[Len(values)])

\* CurlParser.parse(lines): None for null
CurlParser_parse(ls) ==
  LET firstLineIndex == FirstNonEmpty(ls)
      merged == MergeCommand(ls, firstLineIndex)
      afterCurl == Drop(merged.fullCommand, Len(<<"c", "u", "r", "l">>))
      curlArgs == Drop(afterCurl, SpanSpace(afterCurl))
      argv == yargsParser(IF Trim(curlArgs) = <<>> THEN <<>>
                          ELSE SplitWS(Trim(curlArgs)))
      bodyRaw == CurlBody(argv)
      methodAttr == ArgvEither(argv, <<"X">>, <<"r", "e", "q", "u", "e", "s", "t">>)
      method == IF methodAttr # <<>> THEN methodAttr[Len(methodAttr)]
                ELSE IF bodyRaw # None THEN <<"P", "O", "S", "T">> ELSE <<"G", "E", "T">>
  IN IF firstLineIndex = 0 THEN None
     ELSE IF ~StartsWith(Trim(ls[firstLineIndex].text), <<"c", "u", "r", "l", " ">>) THEN None
     ELSE Some([method |-> ToUpperCase(method),
                url |-> IF argv.positional # <<>> THEN argv.positional[1]
                        ELSE <<>>,
                headers |-> CurlHeaders(ArgvEither(argv, <<"H">>, <<"h", "e", "a", "d", "e", "r">>)),
                body |-> IF bodyRaw = None THEN None
                         ELSE Some([raw |-> bodyRaw[1]]),
                consumedLinesCount |-> firstLineIndex - 1 + merged.count])

\* ------------------------------------------------------------------------
\* BodyParser (parsers/body-parser.ts)
\* ------------------------------------------------------------------------
\* s.includes(sub)
IncludesText(s, sub) ==
  \E i \in 0..(Len(s) - Len(sub)) : SubSeq(s, i + 1, i + Len(sub)) = sub

\* s.indexOf(sub): the 0-based index of the first occurrence, -1 if none
IndexOfText(s, sub) ==
  LET at(i) == SubSeq(s, i + 1, i + Len(sub)) = sub
      range == 0..(Len(s) - Len(sub))
  IN IF \E i \in range : at(i)
     THEN CHOOSE i \in range : at(i) /\ \A j \in 0..(i - 1) : ~at(j)
     ELSE -1

\* s.split(sep) for a non-empty separator
RECURSIVE Split(_, _)
Split(s, sep) ==
  LET i == IndexOfText(s, sep)
  IN IF i = -1 THEN <<s>>
     ELSE <<SubSeq(s, 1, i)>> \o Split(Drop(s, i + Len(sep)), sep)

\* the number of bytes of the UTF-8 encoding of one character: the
\* characters of the model are ASCII but for the two-byte e-acute
Utf8Length(c) == IF c = "é" THEN 2 ELSE 1

\* new TextEncoder().encode(rawBody).length
RECURSIVE calculateSize(_)
calculateSize(rawBody) ==
  IF rawBody = <<>> THEN 0
  ELSE Utf8Length(Head(rawBody)) + calculateSize(Tail(rawBody))

RECURSIVE extractContentType(_)
extractContentType(hs) ==
  IF hs = <<>> THEN None
  ELSE IF ToLowerCase(hs[1].name) = <<"c", "o", "n", "t", "e", "n", "t", "-", "t", "y", "p", "e">> THEN Some(hs[1].value)
  ELSE extractContentType(Tail(hs))

\* (contentType || '').toLowerCase().trim()
NormalizedType(contentType) ==
  IF contentType = None THEN <<>> ELSE Trim(ToLowerCase(contentType[1]))

\* --- JSON.parse, for numbers, strings without escapes, the three literals,
\* --- arrays and objects
IsJsonSpace(c) == c \in {" ", "\t", "\n", "\r"}

\* the first position at or after i that holds no JSON whitespace
RECURSIVE SkipJsonSpace(_, _)
SkipJsonSpace(s, i) ==
  IF i <= Len(s) /\ IsJsonSpace(s[i]) THEN SkipJsonSpace(s, i + 1) ELSE i

\* the position after the digits that start at i
RECURSIVE SkipDigits(_, _)
SkipDigits(s, i) ==
  IF i <= Len(s) /\ s[i] \in Digits THEN SkipDigits(s, i + 1) ELSE i

JsonFail == [ok |-> FALSE, next |-> 0, data |-> <<>>]
JsonOk(next, data) == [ok |-> TRUE, next |-> next, data |-> data]

JsonLiterals == { <<"t", "r", "u", "e">>, <<"f", "a", "l", "s", "e">>, <<"n", "u", "l", "l">> }

\* a string that starts at the quote at position i: its characters run to
\* the next quote and contain no backslash and no line break
JsonString(s, i) ==
  LET rest == Drop(s, i)
      close == IndexOf(rest, "\"")
      chars == SubSeq(rest, 1, close - 1)
  IN IF close = 0 \/ \E k \in 1..Len(chars) : chars[k] \in {"\\", "\n", "\r", "\t"}
     THEN JsonFail
     ELSE JsonOk(i + close + 1, [string |-> chars])

\* a value, the elements of an array after "[", the members of an object
\* after "{": each gives the position that follows and the value parsed
RECURSIVE JsonValue(_, _)
RECURSIVE JsonElements(_, _, _)
RECURSIVE JsonMembers(_, _, _)
JsonValue(s, i) ==
  IF i > Len(s) THEN JsonFail
  ELSE IF s[i] = "0" THEN JsonOk(i + 1, [number |-> 0])
  ELSE IF s[i] \in Digits
       THEN JsonOk(SkipDigits(s, i),
                   [number |-> DecimalValue(SubSeq(s, i, SkipDigits(s, i) - 1))])
  ELSE IF s[i] = "\"" THEN JsonString(s, i)
  ELSE IF \E l \in JsonLiterals : StartsWith(Drop(s, i - 1), l)
       THEN LET l == CHOOSE l \in JsonLiterals : StartsWith(Drop(s, i - 1), l)
            IN JsonOk(i + Len(l), [literal |-> l])
  ELSE IF s[i] = "["
       THEN LET j == SkipJsonSpace(s, i + 1)
            IN IF j <= Len(s) /\ s[j] = "]" THEN JsonOk(j + 1, [array |-> <<>>])
               ELSE JsonElements(s, j, <<>>)
  ELSE IF s[i] = "{"
       THEN LET j == SkipJsonSpace(s, i + 1)
            IN IF j <= Len(s) /\ s[j] = "}" THEN JsonOk(j + 1, [object |-> <<>>])
               ELSE JsonMembers(s, j, <<>>)
  ELSE JsonFail
JsonElements(s, i, acc) ==
  LET v == JsonValue(s, i)
      j == SkipJsonSpace(s, v.next)
  IN IF ~v.ok \/ j > Len(s) THEN JsonFail
     ELSE IF s[j] = "]" THEN JsonOk(j + 1, [array |-> Append(acc, v.data)])
     ELSE IF s[j] = ","
          THEN JsonElements(s, SkipJsonSpace(s, j + 1), Append(acc, v.data))
     ELSE JsonFail
JsonMembers(s, i, acc) ==
  LET k == IF i <= Len(s) /\ s[i] = "\"" THEN JsonString(s, i) ELSE JsonFail
      c == SkipJsonSpace(s, k.next)
      v == JsonValue(s, SkipJsonSpace(s, c + 1))
      j == SkipJsonSpace(s, v.next)
      member == [key |-> k.data.string, value |-> v.data]
  IN IF ~k.ok \/ c > Len(s) \/ s[c] # ":" THEN JsonFail
     ELSE IF ~v.ok \/ j > Len(s) THEN JsonFail
     ELSE IF s[j] = "}" THEN JsonOk(j + 1, [object |-> Append(acc, member)])
     ELSE IF s[j] = ","
          THEN JsonMembers(s, SkipJsonSpace(s, j + 1), Append(acc, member))
     ELSE JsonFail

\* JSON.parse(s): the value, or a SyntaxError
JSON_parse(s) ==
  LET v == JsonValue(s, SkipJsonSpace(s, 1))
  IN IF v.ok /\ SkipJsonSpace(s, v.next) > Len(s)
     THEN Returned(v.data) ELSE Thrown("SyntaxError")

parseJson(rawBody) ==
  LET trimmed == Trim(rawBody)
      parsed == JSON_parse(trimmed)
  IN IF trimmed = <<>> THEN Returned([kind |-> "json", data |-> [literal |-> <<"n", "u", "l", "l">>]])
     ELSE IF parsed.threw THEN Thrown("Invalid JSON")
     ELSE Returned([kind |-> "json", data |-> parsed.value])

\* --- decodeURIComponent
HexDigits ==
  <<"0","1","2","3","4","5","6","7","8","9","a","b","c","d","e","f">>
IsHexDigit(c) == \E n \in 1..16 : HexDigits[n] = LowerChar(c)
HexValue(c) == (CHOOSE n \in 1..16 : HexDigits[n] = LowerChar(c)) - 1

\* the characters of the bytes 32..126 (\x60 is the grave accent)
PrintableAscii ==
  <<" ","!","\"","#","$","%","&","'","(",")","*","+",",","-",".","/",
    "0","1","2","3","4","5","6","7","8","9",":",";","<","=",">","?",
    "@","A","B","C","D","E","F","G","H","I","J","K","L","M","N","O",
    "P","Q","R","S","T","U","V","W","X","Y","Z","[","\\","]","^","_",
    "\\x60","a","b","c","d","e","f","g","h","i","j","k","l","m","n","o",
    "p","q","r","s","t","u","v","w","x","y","z","{","|","}","~">>

\* is s, at its start, an escape %XX
IsEscape(s) == Len(s) >= 3 /\ s[1] = "%" /\ IsHexDigit(s[2]) /\ IsHexDigit(s[3])
EscapedByte(s) == 16 * HexValue(s[2]) + HexValue(s[3])

\* the characters of the bytes 0..31, written \xNN where TLA+ has no escape
ControlChars ==
  <<"\\x00", "\\x01", "\\x02", "\\x03", "\\x04", "\\x05", "\\x06", "\\x07",
    "\\x08", "\t", "\n", "\\x0b", "\\x0c", "\r", "\\x0e", "\\x0f",
    "\\x10", "\\x11", "\\x12", "\\x13", "\\x14", "\\x15", "\\x16", "\\x17",
    "\\x18", "\\x19", "\\x1a", "\\x1b", "\\x1c", "\\x1d", "\\x1e", "\\x1f">>

\* the number of continuation bytes the lead byte b asks for, -1 when b
\* cannot lead a UTF-8 sequence
Continuations(b) ==
  IF b \in 194..223 THEN 1
  ELSE IF b \in 224..239 THEN 2
  ELSE IF b \in 240..244 THEN 3
  ELSE -1

\* are the first n escapes of s continuation bytes
RECURSIVE AreContinuations(_, _)
AreContinuations(s, n) ==
  IF n = 0 THEN TRUE
  ELSE /\ IsEscape(s)
       /\ EscapedByte(s) \in 128..191
       /\ AreContinuations(Drop(s, 3), n - 1)

\* The escape sequence at the start of s, which begins with "%": the
\* character it decodes to and the number of characters of s it takes, or
\* a URIError.  A byte below 128 is the character itself; 0xC3 0xA9 is the
\* e-acute; every other well-formed sequence is one non-ASCII character,
\* which the model does not tell apart; a byte from 128 that does not lead
\* a well-formed sequence is a URIError.
DecodeEscape(s) ==
  IF ~IsEscape(s) THEN Thrown("URI malformed")
  ELSE LET b == EscapedByte(s)
           n == Continuations(b)
           t == Drop(s, 3)
       IN IF b < 32 THEN Returned([char |-> ControlChars[b + 1], used |-> 3])
          ELSE IF b < 127
               THEN Returned([char |-> PrintableAscii[b - 31], used |-> 3])
          ELSE IF b = 127 THEN Returned([char |-> "\\x7f", used |-> 3])
          ELSE IF n = -1 \/ ~AreContinuations(t, n) THEN Thrown("URI malformed")
          ELSE IF b = 195 /\ EscapedByte(t) = 169
               THEN Returned([char |-> "é", used |-> 6])
          ELSE Returned([char |-> "\\u", used |-> 3 + 3 * n])

RECURSIVE decodeURIComponent(_)
decodeURIComponent(s) ==
  IF s = <<>> THEN Returned(<<>>)
  ELSE IF Head(s) # "%"
       THEN LET rest == decodeURIComponent(Tail(s))
            IN IF rest.threw THEN rest ELSE Returned(<<Head(s)>> \o rest.value)
  ELSE LET e == DecodeEscape(s)
           rest == decodeURIComponent(Drop(s, e.value.used))
       IN IF e.threw THEN e
          ELSE IF rest.threw THEN rest
          ELSE Returned(<<e.value.char>> \o rest.value)

\* value.replace(/\+/g, ' ')
PlusToSpace(s) == [i \in 1..Len(s) |-> IF s[i] = "+" THEN " " ELSE s[i]]

\* --- parseFormData
\* The fields are kept in insertion order, each with the values given to
\* its key: one value is the string field, two or more the array field.
HasField(fields, key) == \E i \in 1..Len(fields) : fields[i].key = key

AddField(fields, key, value) ==
  IF HasField(fields, key)
  THEN [i \in 1..Len(fields) |->
          IF fields[i].key = key
          THEN [key |-> key, values |-> Append(fields[i].values, value)]
          ELSE fields[i]]
  ELSE Append(fields, [key |-> key, values |-> <<value>>])

\* the for loop over the pairs, from the pair k with the fields so far
RECURSIVE FormPairs(_, _, _)
FormPairs(pairs, k, fields) ==
  IF k > Len(pairs) THEN Returned(fields)
  ELSE LET parts == Split(pairs[k], <<"=">>)
           key == parts[1]
           decodedKey == decodeURIComponent(Trim(key))
           decodedValue ==
             IF Len(parts) >= 2 THEN decodeURIComponent(PlusToSpace(parts[2]))
             ELSE Returned(<<>>)
       IN IF key = <<>> THEN FormPairs(pairs, k + 1, fields)
          ELSE IF decodedKey.threw THEN decodedKey
          ELSE IF decodedValue.threw THEN decodedValue
          ELSE FormPairs(pairs, k + 1,
                         AddField(fields, decodedKey.value,
                                  Trim(decodedValue.value)))

parseFormData(rawBody) ==
  LET fields == FormPairs(Split(rawBody, <<"&">>), 1, <<>>)
  IN IF Trim(rawBody) = <<>> THEN Returned([kind |-> "form", fields |-> <<>>])
     ELSE IF fields.threw THEN fields
     ELSE Returned([kind |-> "form", fields |-> fields.value])

\* --- parseMultipart
\* the capture of /boundary=([^;]+)/i in the content type, None if no match
BoundaryOf(contentType) ==
  LET l == ToLowerCase(contentType)
      key == <<"b", "o", "u", "n", "d", "a", "r", "y", "=">>
      matches(i) ==
        /\ SubSeq(l, i + 1, i + Len(key)) = key
        /\ i + Len(key) < Len(l)
        /\ l[i + Len(key) + 1] # ";"
      range == 0..(Len(l) - Len(key))
      first == CHOOSE i \in range : matches(i) /\ \A j \in 0..(i - 1) : ~matches(j)
      after == Drop(contentType, first + Len(key))
      semicolon == IndexOf(after, ";")
  IN IF ~\E i \in range : matches(i) THEN None
     ELSE IF semicolon = 0 THEN Some(after)
     ELSE Some(SubSeq(after, 1, semicolon - 1))

\* s.replace(/^["']|["']$/g, '')
StripQuotes(s) ==
  LET a == IF s # <<>> /\ Head(s) \in {"\"", "'"} THEN Tail(s) ELSE s
  IN IF a # <<>> /\ a[Len(a)] \in {"\"", "'"} THEN SubSeq(a, 1, Len(a) - 1)
     ELSE a

\* the capture of /<attribute>="([^"]+)"/ in a Content-Disposition value
QuotedAttribute(value, attribute) ==
  LET key == attribute \o <<"=", "\"">>
      matches(i) ==
        /\ SubSeq(value, i + 1, i + Len(key)) = key
        /\ LET rest == Drop(value, i + Len(key))
           IN IndexOf(rest, "\"") >= 2
      range == 0..(Len(value) - Len(key))
      first == CHOOSE i \in range : matches(i) /\ \A j \in 0..(i - 1) : ~matches(j)
      rest == Drop(value, first + Len(key))
  IN IF ~\E i \in range : matches(i) THEN None
     ELSE Some(SubSeq(rest, 1, IndexOf(rest, "\"") - 1))

\* headers[name] = value on the part's header record, kept as a sequence
SetPartHeader(hs, name, value) ==
  IF \E i \in 1..Len(hs) : hs[i].name = name
  THEN [i \in 1..Len(hs) |->
          IF hs[i].name = name THEN [name |-> name, value |-> value] ELSE hs[i]]
  ELSE Append(hs, [name |-> name, value |-> value])

PartHeader(hs, name) ==
  IF \E i \in 1..Len(hs) : hs[i].name = name
  THEN Some(hs[CHOOSE i \in 1..Len(hs) : hs[i].name = name].value)
  ELSE None

\* the "Parse headers" loop of parseMultipartPart from the line k (1-based):
\* the headers read and headerEndIndex
RECURSIVE PartHeaders(_, _, _)
PartHeaders(ls, k, hs) ==
  IF k > Len(ls) THEN [headers |-> hs, headerEndIndex |-> 0]
  ELSE IF Trim(ls[k]) = <<>> THEN [headers |-> hs, headerEndIndex |-> k]
  ELSE LET colon == IndexOf(ls[k], ":")
           name == ToLowerCase(Trim(SubSeq(ls[k], 1, colon - 1)))
       IN IF colon = 0 THEN PartHeaders(ls, k + 1, hs)
          ELSE PartHeaders(ls, k + 1,
                           SetPartHeader(hs, name, Trim(Drop(ls[k], colon))))

\* the FormPart of a section, None when the section is dropped
parseMultipartPart(section) ==
  LET ls == Split(section, LF)
      read == PartHeaders(ls, 1, <<>>)
      contentDisposition == PartHeader(read.headers, <<"c", "o", "n", "t", "e", "n", "t", "-", "d", "i", "s", "p", "o", "s", "i", "t", "i", "o", "n">>)
      name == QuotedAttribute(contentDisposition[1], <<"n", "a", "m", "e">>)
  IN IF contentDisposition = None \/ contentDisposition[1] = <<>> THEN None
     ELSE IF name = None THEN None
     ELSE Some([name |-> name[1],
                value |-> Trim(Join(Drop(ls, read.headerEndIndex), LF)),
                filename |-> QuotedAttribute(contentDisposition[1], <<"f", "i", "l", "e", "n", "a", "m", "e">>),
                contentType |-> PartHeader(read.headers, <<"c", "o", "n", "t", "e", "n", "t", "-", "t", "y", "p", "e">>),
                headers |-> read.headers])

RECURSIVE MultipartParts(_)
MultipartParts(sections) ==
  IF sections = <<>> THEN <<>>
  ELSE LET trimmed == Trim(sections[1])
       IN (IF trimmed = <<>> \/ trimmed = <<"-", "-">> THEN <<>>
           ELSE parseMultipartPart(trimmed))
          \o MultipartParts(Tail(sections))

parseMultipart(rawBody, contentType) ==
  IF contentType = None
  THEN Thrown("Missing Content-Type header with boundary for multipart")
  ELSE IF BoundaryOf(contentType[1]) = None
  THEN Thrown("Missing boundary in Content-Type header")
  ELSE LET boundary == StripQuotes(Trim(BoundaryOf(contentType[1])[1]))
       IN Returned([kind |-> "multipart", boundary |-> boundary,
                    parts |-> MultipartParts(
                                Split(rawBody, <<"-", "-">> \o boundary))])

\* --- parse
parseByContentType(rawBody, contentType) ==
  LET normalizedType == NormalizedType(contentType)
  IN IF \/ IncludesText(normalizedType, <<"a", "p", "p", "l", "i", "c", "a", "t", "i", "o", "n", "/", "j", "s", "o", "n">>)
        \/ IncludesText(normalizedType, <<"t", "e", "x", "t", "/", "j", "s", "o", "n">>)
     THEN parseJson(rawBody)
     ELSE IF IncludesText(normalizedType, <<"a", "p", "p", "l", "i", "c", "a", "t", "i", "o", "n", "/", "x", "-", "w", "w", "w", "-", "f", "o", "r", "m", "-", "u", "r", "l", "e", "n", "c", "o", "d", "e", "d">>)
     THEN parseFormData(rawBody)
     ELSE IF IncludesText(normalizedType, <<"m", "u", "l", "t", "i", "p", "a", "r", "t", "/", "f", "o", "r", "m", "-", "d", "a", "t", "a">>)
     THEN parseMultipart(rawBody, contentType)
     ELSE Returned([kind |-> "text", text |-> rawBody])

\* content is None for the null content
createSuccessResult(content, raw, contentType, size) ==
  [status |-> "parsed",
   content |->
     [protocol |-> "http",
      body |-> IF content = None THEN [kind |-> "text", text |-> <<>>]
               ELSE content[1]],
   raw |-> raw,
   contentType |-> contentType,
   size |-> size]

createErrorResult(message, raw, contentType, size) ==
  [status |-> "error",
   error |-> [message |-> message],
   raw |-> raw,
   contentType |-> contentType,
   size |-> size]

\* the call lets its own Errors out instead of catching them
BodyParser_parse_uncaught(ls, hs) ==
  LET rawBody == Join([i \in 1..Len(ls) |-> ls[i].text], LF)
      contentType == extractContentType(hs)
      content == parseByContentType(rawBody, contentType)
  IN IF Trim(rawBody) = <<>>
     THEN Returned(createSuccessResult(None, rawBody, contentType,
                                       calculateSize(rawBody)))
     ELSE IF content.threw THEN content
     ELSE Returned(createSuccessResult(Some(content.value), rawBody,
                                       contentType, calculateSize(rawBody)))

\* BodyParser.parse returns an HttpBodyResult or throws an Error; ls are
\* LineContexts, hs are Headers
BodyParser_parse(ls, hs) ==
  LET rawBody == Join([i \in 1..Len(ls) |-> ls[i].text], LF)
      contentType == extractContentType(hs)
      size == calculateSize(rawBody)
      \* the try block and its catch, given what parseByContentType did
      Result(content) ==
        IF content.threw
        THEN Returned(createErrorResult(content.message, rawBody, contentType, size))
        ELSE Returned(createSuccessResult(Some(content.value), rawBody,
                                          contentType, size))
  IN IF Len(ls) = 0
     THEN Returned(createSuccessResult(None, <<>>, None, calculateSize(<<>>)))
     ELSE IF Trim(rawBody) = <<>>
     THEN IF IncludesText(NormalizedType(contentType),
                          <<"a", "p", "p", "l", "i", "c", "a", "t", "i", "o", "n", "/", "x", "-", "w", "w", "w", "-", "f", "o", "r", "m", "-", "u", "r", "l", "e", "n", "c", "o", "d", "e", "d">>)
          THEN Returned(createSuccessResult(
                          Some([kind |-> "form", fields |-> <<>>]),
                          rawBody, contentType, size))
          ELSE Returned(createSuccessResult(None, rawBody, contentType, size))
     ELSE Result(parseByContentType(rawBody, contentType))

\* ------------------------------------------------------------------------
\* SegmentParser (parsers/segment-parser.ts)
\* ------------------------------------------------------------------------
\* index of the first blank line at or after startIndex, plus one;
\* indices are 0-based as in the source
RECURSIVE findBodyStartIndex(_, _)
findBodyStartIndex(ls, startIndex) ==
  IF startIndex >= Len(ls) THEN Len(ls)
  ELSE IF Trim(ls[startIndex + 1].text) = <<>> THEN startIndex + 1
  ELSE findBodyStartIndex(ls, startIndex + 1)

\* the capture of /^\s*@name\s+(.+)$/i on a line, trimmed; None if no match
NameOf(lineText) ==
  LET a == Drop(lineText, SpanSpace(lineText))
      b == Drop(a, Len(<<"@", "n", "a", "m", "e">>))
      ws == SpanSpace(b)
      c == Drop(b, ws)
  IN IF ~StartsWith(ToLowerCase(a), <<"@", "n", "a", "m", "e">>) \/ ws = 0 THEN None
     ELSE IF c # <<>> THEN Some(Trim(c))
     ELSE IF ws >= 2 THEN Some(<<>>)
     ELSE None

RECURSIVE extractRequestName(_)
extractRequestName(ls) ==
  IF ls = <<>> THEN None
  ELSE IF NameOf(ls[1].text) # None THEN NameOf(ls[1].text)
  ELSE extractRequestName(Tail(ls))

\* the key captured by /^\s*@(\w+)\s*=\s*(.*)$/ on a line; None if no match
BlockVariableKey(lineText) ==
  LET a == Drop(lineText, SpanSpace(lineText))
      b == Drop(a, 1)
      n == SpanWord(b)
      c == Drop(b, n)
      d == Drop(c, SpanSpace(c))
  IN IF StartsWith(a, <<"@">>) /\ n >= 1 /\ StartsWith(d, <<"=">>)
     THEN Some(SubSeq(b, 1, n)) ELSE None

RECURSIVE extractBlockVariables(_)
extractBlockVariables(ls) ==
  IF ls = <<>> THEN <<>>
  ELSE LET key == BlockVariableKey(ls[1].text)
       IN (IF key # None /\ ToLowerCase(key[1]) # <<"n", "a", "m", "e">>
           THEN <<FileVariable(key[1], ls[1].lineNumber, None)>>
           ELSE <<>>)
          \o extractBlockVariables(Tail(ls))

\* the capture of /^\s*#\s*(.+)$/ on a line, trimmed; None if no match
CommentOf(lineText) ==
  LET a == Drop(lineText, SpanSpace(lineText))
      b == Drop(a, 1)
      ws == SpanSpace(b)
      c == Drop(b, ws)
  IN IF ~StartsWith(a, <<"#">>) THEN None
     ELSE IF c # <<>> THEN Some(Trim(c))
     ELSE IF ws >= 1 THEN Some(<<>>)
     ELSE None

RECURSIVE extractComments(_)
extractComments(ls) ==
  IF ls = <<>> THEN <<>>
  ELSE LET trimmed == Trim(ls[1].text)
       IN (IF isDelimiter(trimmed) \/ StartsWith(trimmed, <<"@">>)
              \/ CommentOf(ls[1].text) = None
           THEN <<>>
           ELSE <<CommentOf(ls[1].text)[1]>>)
          \o extractComments(Tail(ls))

RawTextRange(seg) == [startLine |-> seg.startLine, endLine |-> seg.endLine]

\* directive lines are not skipped
findSignificantLineIndex_keepsDirectives(ls) ==
  LET significant(i) ==
        /\ Len(Trim(ls[i].text)) > 0
        /\ ~StartsWith(Trim(ls[i].text), <<"#">>)
  IN IF \E i \in 1..Len(ls) : significant(i)
     THEN (CHOOSE i \in 1..Len(ls) :
             significant(i) /\ \A j \in 1..(i - 1) : ~significant(j)) - 1
     ELSE -1

\* the 0-based index of the first line that is not blank and starts with
\* neither # nor @, or -1
findSignificantLineIndex(ls) ==
  LET significant(i) ==
        /\ Len(Trim(ls[i].text)) > 0
        /\ ~StartsWith(Trim(ls[i].text), <<"#">>)
        /\ ~StartsWith(Trim(ls[i].text), <<"@">>)
  IN IF \E i \in 1..Len(ls) : significant(i)
     THEN (CHOOSE i \in 1..Len(ls) :
             significant(i) /\ \A j \in 1..(i - 1) : ~significant(j)) - 1
     ELSE -1

\* The Request a request segment yields, None for a segment without a
\* significant line, or the Error thrown by the request-line parser.
parseRequestSegment(seg) ==
  LET ls == seg.lines
      significantLineIndex == findSignificantLineIndex(ls)
      parsedRequestLine ==
        HTTPRequestLineParser_parse(ls[significantLineIndex + 1].text)
      queryResult == QueryParser_parse(Drop(ls, significantLineIndex + 1))
      headersStartIndex ==
        significantLineIndex + 1 + queryResult.consumedLinesCount
      headerResult == HeaderParser_parse(Drop(ls, headersStartIndex))
      bodyStartLineIndex == headersStartIndex + headerResult.consumedLinesCount
      bodyStartIndex == findBodyStartIndex(ls, bodyStartLineIndex)
      bodyLines == Drop(ls, bodyStartIndex)
      hasBodyContent ==
        \E i \in 1..Len(bodyLines) : Len(Trim(bodyLines[i].text)) > 0
      \* the return statement, given what bodyParser.parse did
      Request(body) ==
        IF hasBodyContent /\ body.threw THEN body
        ELSE Returned(Some(
          [name |-> extractRequestName(ls),
           method |-> parsedRequestLine.value.method,
           url |-> parsedRequestLine.value.url,
           httpVersion |-> parsedRequestLine.value.httpVersion,
           queryParams |-> queryResult.queryParams,
           headers |-> headerResult.headers,
           body |-> IF hasBodyContent THEN Some(body.value) ELSE None,
           blockVariables |-> [fileVariables |-> extractBlockVariables(ls)],
           comments |-> extractComments(ls),
           rawTextRange |-> RawTextRange(seg),
           expectedResponse |-> None]))
  IN IF significantLineIndex = -1 THEN Returned(None)
     ELSE IF parsedRequestLine.threw THEN parsedRequestLine
     ELSE Request(BodyParser_parse(bodyLines, headerResult.headers))

\* the ExpectedResponse a response segment yields
parseResponseSegment(seg) ==
  LET ls == seg.lines
      significantLineIndex == findSignificantLineIndex(ls)
      parsedResponseLine ==
        ResponseLineParser_parse(ls[significantLineIndex + 1].text)
      headersStartIndex == significantLineIndex + 1
      headerResult == HeaderParser_parse(Drop(ls, headersStartIndex))
      bodyStartLineIndex == headersStartIndex + headerResult.consumedLinesCount
      bodyStartIndex == findBodyStartIndex(ls, bodyStartLineIndex)
      bodyLines == Drop(ls, bodyStartIndex)
      rawBody == Join([i \in 1..Len(bodyLines) |-> bodyLines[i].text], LF)
  IN IF significantLineIndex = -1
     THEN [statusCode |-> 0, statusText |-> None, httpVersion |-> None,
           headers |-> <<>>, body |-> None,
           variables |-> [fileVariables |-> <<>>],
           rawTextRange |-> RawTextRange(seg)]
     ELSE [statusCode |-> IF parsedResponseLine.statusCode # None
                          THEN parsedResponseLine.statusCode[1] ELSE 0,
           statusText |-> parsedResponseLine.statusText,
           httpVersion |-> parsedResponseLine.httpVersion,
           headers |-> headerResult.headers,
           body |-> IF Trim(rawBody) # <<>> THEN Some(Trim(rawBody)) ELSE None,
           variables |-> [fileVariables |-> extractBlockVariables(ls)],
           rawTextRange |-> RawTextRange(seg)]

parseSegment(seg) ==
  IF seg.messageType = "response"
  THEN Returned(Some(parseResponseSegment(seg)))
  ELSE parseRequestSegment(seg)

\* ------------------------------------------------------------------------
\* HttpRequestParser (parser.ts)
\* ------------------------------------------------------------------------
isRequest(node) == {"method", "url"} \subseteq DOMAIN node
isExpectedResponse(node) == "statusCode" \in DOMAIN node

\* the response is attached to the first request of the document
AttachResponse_toFirst(reqs, last, node) ==
  [reqs EXCEPT ![1].expectedResponse = Some(node)]

\* the response is attached only when the request has none yet
AttachResponse_firstWins(reqs, last, node) ==
  IF reqs[last].expectedResponse = None
  THEN [reqs EXCEPT ![last].expectedResponse = Some(node)]
  ELSE reqs

\* lastRequest.expectedResponse = node
AttachResponse(reqs, last, node) ==
  [reqs EXCEPT ![last].expectedResponse = Some(node)]

\* an orphaned response is attached to nothing in non-strict mode and makes
\* linkResponses throw in strict mode
OrphanResponse_strictThrows(strict, node, warns) ==
  IF strict
  THEN [threw |-> TRUE, warnings |-> warns]
  ELSE [threw |-> FALSE, warnings |-> warns]

\* "Response without a preceding request": a console.warn in strict mode
OrphanResponse(strict, node, warns) ==
  [threw |-> FALSE,
   warnings |-> IF strict THEN Append(warns, node.rawTextRange.startLine)
                ELSE warns]

\* the file-scoped variables are all the scanned definitions
getFileScopedVariables_all(lcs, fileVariables) == fileVariables

getFileScopedVariables(lcs, fileVariables) ==
  LET isFirstDelimiter(k) ==
        /\ Trim(lcs[k].text) = <<"#", "#", "#">>
        /\ \A j \in 1..(k - 1) : Trim(lcs[j].text) # <<"#", "#", "#">>
  IN IF \E k \in 1..Len(lcs) : isFirstDelimiter(k)
     THEN LET firstDelimiterLine ==
                lcs[CHOOSE k \in 1..Len(lcs) : isFirstDelimiter(k)].lineNumber
              before(variable) == variable.lineNumber < firstDelimiterLine
          IN SelectSeq(fileVariables, before)
     ELSE fileVariables

\* the number of pieces of text.split(/\r?\n/)
createMetadata(t) ==
  [length |-> Len(t),
   lines |-> 1 + Cardinality({i \in 1..Len(t) : t[i] = "\n"})]

\* The ParseResult; its text, lineContexts and segments fields are the
\* variables text, lineContexts and segments.
buildResult(t, lcs, scanned, reqs) ==
  [metadata |-> createMetadata(t),
   ast |-> [requests |-> reqs,
            fileScopedVariables |->
              [fileVariables |->
                 getFileScopedVariables(lcs, scanned.fileVariables)],
            globalVariables |-> [fileVariables |-> scanned.fileVariables]]]

\* parseSegments: the map over the classified segments from the segment k,
\* or the Error of the first parseSegment that throws
RECURSIVE parseSegments(_, _)
parseSegments(cs, k) ==
  IF k > Len(cs) THEN Returned(<<>>)
  ELSE LET r == parseSegment(cs[k])
           rest == parseSegments(cs, k + 1)
       IN IF r.threw THEN r
          ELSE IF rest.threw THEN rest
          ELSE Returned(<<r.value>> \o rest.value)

\* linkResponses: the for loop from the node k with the requests and the
\* lastRequest so far
RECURSIVE linkResponses(_, _, _, _, _)
linkResponses(strict, nodes, k, reqs, last) ==
  IF k > Len(nodes) THEN Returned(reqs)
  ELSE LET node == nodes[k]
       IN IF node = None THEN linkResponses(strict, nodes, k + 1, reqs, last)
          ELSE IF isRequest(node[1])
          THEN linkResponses(strict, nodes, k + 1, Append(reqs, node[1]),
                             Len(reqs) + 1)
          ELSE IF isExpectedResponse(node[1]) /\ last # 0
          THEN linkResponses(strict, nodes, k + 1,
                             AttachResponse(reqs, last, node[1]), last)
          ELSE IF isExpectedResponse(node[1])
                  /\ OrphanResponse(strict, node[1], <<>>).threw
          THEN Thrown("Orphaned response")
          ELSE linkResponses(strict, nodes, k + 1, reqs, last)

\* parseText as a function of the text and of the options of the parser:
\* the ParseResult returned, or the Error thrown
parseText(t, strict) ==
  LET lcs == LineScanner_scan(t)
      segs == Segmenter_segment(lcs)
      scanned == [fileVariables |-> VariableScanner_scan(segs)]
      nodes == parseSegments(SegmentClassifier_classify(segs), 1)
      linked == linkResponses(strict, nodes.value, 1, <<>>, 0)
  IN IF nodes.threw THEN nodes
     ELSE IF linked.threw THEN linked
     ELSE Returned(buildResult(t, lcs, scanned, linked.value))

\* ------------------------------------------------------------------------
\* Inputs
\* ------------------------------------------------------------------------
SeqsUpTo(S, n) == UNION {[1..k -> S] : k \in 0..n}

\* characters of the raw texts scanned in SpecScan
ScanAlphabet == {"a", "b", "\n", "\r"}

\* line texts of the documents segmented in SpecSeg
SegLineTexts ==
  { <<"#", "#", "#">>,                 \* ###
    <<" ", "#", "#", "#", "#", " ">>,  \* a padded ####
    <<"#", "#">>,                      \* ## is too short
    <<"#", "#", "#", "a">>,            \* ###a has content
    <<"a">>,
    <<>>,                              \* an empty line
    <<" ">> }                          \* a whitespace-only line

\* blocks of lines the documents parsed in Spec are made of
RequestBlock == << <<"G", "E", "T", " ", "/", "a">> >>
VariableRequestBlock == << <<"@", "v", "=", "1">>, <<"p", "o", "s", "t", " ", "/", "b">> >>
ResponseBlock == << <<"H", "T", "T", "P", "/", "1", " ", "2", "0", "0">> >>
VariableBlock == << <<"@", "w", "=", "2">> >>
InvalidMethodBlock == << <<"P", "U", "R", "G", "E", " ", "/", "c">> >>
EmptyBlock == << >>

Blocks ==
  { RequestBlock, VariableRequestBlock, ResponseBlock, VariableBlock,
    InvalidMethodBlock, EmptyBlock }

\* delimiter lines put between two blocks
Delimiters == { <<"#", "#", "#">>, <<"#", "#", "#", "#">> }

\* the lines of the blocks bs with the delimiter ds[i] after block i
RECURSIVE DocLines(_, _)
DocLines(bs, ds) ==
  IF bs = <<>> THEN <<>>
  ELSE IF Len(bs) = 1 THEN bs[1]
  ELSE bs[1] \o <<ds[1]>> \o DocLines(Tail(bs), Tail(ds))

NoResult == <<>>
NoError == <<>>

\* the state of a parser before parseText has run on the text t
Fresh(t, strict) ==
  /\ pc = "start"
  /\ text = t
  /\ options = [strict |-> strict]
  /\ lineContexts = <<>>
  /\ segments = <<>>
  /\ scanResult = [fileVariables |-> <<>>]
  /\ registry = [variables |-> {}, segmentVariables |-> {}]
  /\ classifiedSegments = <<>>
  /\ parsedNodes = <<>>
  /\ linkIndex = 0
  /\ requests = <<>>
  /\ lastRequest = 0
  /\ warnings = <<>>
  /\ result = NoResult
  /\ error = NoError
  /\ incrementalState = [buffer |-> <<>>, finalized |-> FALSE]

\* a single parseText call, and no component called on its own
SingleCall ==
  /\ pending = <<>>
  /\ history = <<>>
  /\ input = <<>>
  /\ output = <<>>

InitScan ==
  /\ \E t \in SeqsUpTo(ScanAlphabet, MaxLen) : Fresh(t, FALSE)
  /\ SingleCall

InitSeg ==
  /\ \E d \in SeqsUpTo(SegLineTexts, MaxLines) : Fresh(Join(d, LF), FALSE)
  /\ SingleCall

\* ------------------------------------------------------------------------
\* parseText, step by step (parser.ts)
\* ------------------------------------------------------------------------
\* Step 1: Line Scanning
ScanLines ==
  /\ pc = "start"
  /\ UNCHANGED callContext
  /\ lineContexts' = LineScanner_scan(text)
  /\ pc' = "scanned"
  /\ UNCHANGED <<text, options, segments, scanResult, registry,
                 classifiedSegments, parsedNodes, linkIndex, requests,
                 lastRequest, warnings, result, error>>

\* Step 2: Segmentation
CreateSegments ==
  /\ pc = "scanned"
  /\ UNCHANGED callContext
  /\ segments' = Segmenter_segment(lineContexts)
  /\ pc' = "segmented"
  /\ UNCHANGED <<text, options, lineContexts, scanResult, registry,
                 classifiedSegments, parsedNodes, linkIndex, requests,
                 lastRequest, warnings, result, error>>

\* a parser constructed with the option strict, given a document of blocks
Init ==
  /\ \E n \in 0..MaxBlocks :
       \E bs \in [1..n -> Blocks], ds \in [1..(n - 1) -> Delimiters],
          strict \in BOOLEAN :
         Fresh(Join(DocLines(bs, ds), LF), strict)
  /\ SingleCall

\* Step 3: Variable Scanning, and the population of the registry
ScanVariables ==
  /\ pc = "segmented"
  /\ UNCHANGED callContext
  /\ scanResult' = [fileVariables |-> VariableScanner_scan(segments)]
  /\ registry' = RegistryWith(VariableRegistry_new(registry),
                             VariableScanner_scan(segments))
  /\ pc' = "varscanned"
  /\ UNCHANGED <<text, options, lineContexts, segments, classifiedSegments,
                 parsedNodes, linkIndex, requests, lastRequest, warnings,
                 result, error>>

\* Step 4: Classification
ClassifySegments ==
  /\ pc = "varscanned"
  /\ UNCHANGED callContext
  /\ classifiedSegments' = SegmentClassifier_classify(segments)
  /\ pc' = IF Len(segments) = 0 THEN "linking" ELSE "parsing"
  /\ UNCHANGED <<text, options, lineContexts, segments, scanResult, registry,
                 parsedNodes, linkIndex, requests, lastRequest, warnings,
                 result, error>>

\* Step 5: Segment Parsing, one call of the map callback of parseSegments;
\* an Error thrown by parseSegment leaves parseText
ParseSegment ==
  /\ pc = "parsing"
  /\ UNCHANGED callContext
  /\ Len(parsedNodes) < Len(classifiedSegments)
  /\ \E r \in {parseSegment(classifiedSegments[Len(parsedNodes) + 1])} :
        IF r.threw
        THEN /\ pc' = "thrown"
             /\ error' = Some(r.message)
             /\ UNCHANGED parsedNodes
        ELSE /\ parsedNodes' = Append(parsedNodes, r.value)
             /\ pc' = IF Len(parsedNodes) + 1 = Len(classifiedSegments)
                      THEN "linking" ELSE "parsing"
             /\ UNCHANGED error
  /\ UNCHANGED <<text, options, lineContexts, segments, scanResult, registry,
                 classifiedSegments, linkIndex, requests, lastRequest,
                 warnings, result>>

\* Step 6: Response Linking, one iteration of the loop of linkResponses
LinkResponse ==
  /\ pc = "linking"
  /\ UNCHANGED callContext
  /\ linkIndex < Len(parsedNodes)
  /\ linkIndex' = linkIndex + 1
  /\ LET node == parsedNodes[linkIndex + 1]
     IN IF node = None
        THEN UNCHANGED <<pc, requests, lastRequest, warnings, error>>
        ELSE IF isRequest(node[1])
        THEN /\ requests' = Append(requests, node[1])
             /\ lastRequest' = Len(requests) + 1
             /\ UNCHANGED <<pc, warnings, error>>
        ELSE IF isExpectedResponse(node[1])
        THEN IF lastRequest # 0
             THEN /\ requests' = AttachResponse(requests, lastRequest, node[1])
                  /\ UNCHANGED <<pc, lastRequest, warnings, error>>
             ELSE LET o == OrphanResponse(options.strict, node[1], warnings)
                  IN /\ warnings' = o.warnings
                     /\ pc' = IF o.threw THEN "thrown" ELSE pc
                     /\ error' = IF o.threw THEN Some("Orphaned response")
                                 ELSE error
                     /\ UNCHANGED <<requests, lastRequest>>
        ELSE UNCHANGED <<pc, requests, lastRequest, warnings, error>>
  /\ UNCHANGED <<text, options, lineContexts, segments, scanResult, registry,
                 classifiedSegments, parsedNodes, result>>

\* Step 7: Result Assembly, and the return of parseText
BuildResult ==
  /\ pc = "linking"
  /\ UNCHANGED callContext
  /\ linkIndex = Len(parsedNodes)
  /\ result' = Some(buildResult(text, lineContexts, scanResult, requests))
  /\ pc' = "done"
  /\ UNCHANGED <<text, options, lineContexts, segments, scanResult, registry,
                 classifiedSegments, parsedNodes, linkIndex, requests,
                 lastRequest, warnings, error>>

Next ==
  \/ ScanLines
  \/ CreateSegments
  \/ ScanVariables
  \/ ClassifySegments
  \/ ParseSegment
  \/ LinkResponse
  \/ BuildResult
Spec == Init /\ [][Next]_vars

\* ------------------------------------------------------------------------
\* Documents of one request segment (SpecRequest)
\* ------------------------------------------------------------------------
\* largest number of lines that follow the request line
MaxRequestLines == 4

\* texts of the lines that follow the request line: a query continuation, a
\* header, a blank line and a line that is none of them
RequestLineTexts ==
  { <<"?", "q", "=", "1">>,
    <<"H", ":", " ", "v">>,
    <<" ">>,
    <<"x">> }

InitRequest ==
  /\ \E d \in SeqsUpTo(RequestLineTexts, MaxRequestLines) :
       Fresh(Join(<<<<"P", "O", "S", "T", " ", "/", "a">>>> \o d, LF), FALSE)
  /\ SingleCall

SpecRequest == InitRequest /\ [][Next]_vars

\* ------------------------------------------------------------------------
\* Documents with curl commands and comment-only segments (SpecMixed)
\* ------------------------------------------------------------------------
\* largest number of delimiter-separated blocks of a document in SpecMixed
MaxMixedBlocks == 3

CommentBlock == << <<"#", " ", "c">> >>
SlashCommentBlock == << <<"/", "/", " ", "c">> >>
CurlBlock == << <<"c", "u", "r", "l", " ", "-", "X", " ", "p", "u", "t", " ", "h", "t", "t", "p", ":", "/", "/", "x", " ", "\\">>, <<"-", "H", " ", "k", ":", "v", " ", "-", "d", " ", "b">> >>

MixedBlocks ==
  { RequestBlock, ResponseBlock, VariableBlock, CommentBlock,
    SlashCommentBlock, CurlBlock }

InitMixed ==
  /\ \E n \in 0..MaxMixedBlocks :
       \E bs \in [1..n -> MixedBlocks], strict \in BOOLEAN :
         Fresh(Join(DocLines(bs, [i \in 1..(n - 1) |-> <<"#", "#", "#">>]), LF),
               strict)
  /\ SingleCall

SpecMixed == InitMixed /\ [][Next]_vars

\* ------------------------------------------------------------------------
\* Documents with name directives and comments (SpecDirectives)
\* ------------------------------------------------------------------------
\* largest number of lines of a document in SpecDirectives
MaxDirectiveLines == 3

\* line texts: name directives in a comment and on their own, a plain
\* comment, another directive, a delimiter and a request line
DirectiveLineTexts ==
  { <<"#", " ", "@", "n", "a", "m", "e", " ", "X">>,
    <<"#", " ", "@", "n", "a", "m", "e", " ", "Y">>,
    <<"@", "n", "a", "m", "e", " ", "Z">>,
    <<"#", " ", "c">>,
    <<"#", " ", "@", "p", "r", "o", "m", "p", "t", " ", "p">>,
    <<"#", "#", "#">>,
    <<"G", "E", "T", " ", "/", "a">> }

InitDirectives ==
  /\ \E d \in SeqsUpTo(DirectiveLineTexts, MaxDirectiveLines) :
       Fresh(Join(d, LF), FALSE)
  /\ SingleCall

SpecDirectives == InitDirectives /\ [][Next]_vars

\* ------------------------------------------------------------------------
\* Requests with comments and directives after the request line
\* (SpecAnnotated)
\* ------------------------------------------------------------------------
\* largest number of lines that follow the request line in SpecAnnotated
MaxAnnotatedLines == 3

\* line texts: comments and a variable line that hold a colon, a header, a
\* query continuation, a plain comment, a blank line
AnnotatedLineTexts ==
  { <<"#", " ", "a", ":", " ", "b">>, <<"/", "/", " ", "c", ":", " ", "d">>, <<"@", "v", " ", "=", " ", "x", ":", "y">>, <<"H", ":", " ", "v">>, <<"?", "q", "=", "1">>, <<"#", " ", "c">>, <<>> }

InitAnnotated ==
  /\ \E d \in SeqsUpTo(AnnotatedLineTexts, MaxAnnotatedLines) :
       Fresh(Join(<<<<"G", "E", "T", " ", "/", "a">>>> \o d, LF), FALSE)
  /\ SingleCall

SpecAnnotated == InitAnnotated /\ [][Next]_vars

\* ------------------------------------------------------------------------
\* Documents with response lines behind comments and directives
\* (SpecResponses)
\* ------------------------------------------------------------------------
\* largest number of lines of a document in SpecResponses
MaxResponseLines == 3

\* line texts: a comment, a // comment, a variable, an empty line, response
\* lines with and without a status code, a request line, a header
ResponseLineTexts ==
  { <<"#", " ", "c">>, <<"/", "/", " ", "c">>, <<"@", "v", "=", "1">>, <<>>, <<"H", "T", "T", "P", "/", "1", " ", "2", "0", "0">>, <<" ", "h", "t", "t", "p", "/", "1", ".", "1">>,
    <<"G", "E", "T", " ", "/", "a">>, <<"H", ":", " ", "v">> }

InitResponses ==
  /\ \E d \in SeqsUpTo(ResponseLineTexts, MaxResponseLines) :
       Fresh(Join(d, LF), FALSE)
  /\ SingleCall

SpecResponses == InitResponses /\ [][Next]_vars

\* largest number of blocks of the document of the first of several calls
MaxCallBlocks == 2

\* texts parsed by a later call: a response alone, a request with its
\* response, the empty text
LaterTexts ==
  { Join(ResponseBlock, LF),
    Join(DocLines(<<RequestBlock, ResponseBlock>>, <<<<"#", "#", "#">>>>), LF),
    <<>> }

\* a parser that is given a document and then one of the later texts
InitCalls ==
  /\ \E n \in 0..MaxCallBlocks :
       \E bs \in [1..n -> Blocks], ds \in [1..(n - 1) -> Delimiters],
          strict \in BOOLEAN :
         Fresh(Join(DocLines(bs, ds), LF), strict)
  /\ \E t \in LaterTexts : pending = <<t>>
  /\ history = <<>>
  /\ input = <<>>
  /\ output = <<>>

\* parseText has returned or thrown and is called again, on the same parser
\* or on a new one: the locals of the call that ended are gone, the
\* registry of that call and the lines written to the console are not
ParseNextText ==
  /\ pc \in {"done", "thrown"}
  /\ pending # <<>>
  /\ history' = Append(history, [text |-> text, result |-> result,
                                 error |-> error, registry |-> registry])
  /\ pending' = Tail(pending)
  /\ text' = Head(pending)
  /\ \E strict \in BOOLEAN : options' = [strict |-> strict]
  /\ pc' = "start"
  /\ lineContexts' = <<>>
  /\ segments' = <<>>
  /\ scanResult' = [fileVariables |-> <<>>]
  /\ classifiedSegments' = <<>>
  /\ parsedNodes' = <<>>
  /\ linkIndex' = 0
  /\ requests' = <<>>
  /\ lastRequest' = 0
  /\ result' = NoResult
  /\ error' = NoError
  /\ UNCHANGED <<registry, warnings, input, output, incrementalState>>

NextCalls == Next \/ ParseNextText
SpecCalls == InitCalls /\ [][NextCalls]_vars

\* ------------------------------------------------------------------------
\* Incremental parsing: parseChunk, finalizeChunks, resetChunks (SpecChunks)
\* ------------------------------------------------------------------------
\* parseChunk(chunk) without the check of the finalized flag
parseChunk_afterFinalize(state, chunk) ==
  IF chunk.typeof # "string" THEN Thrown("Chunk must be a string")
  ELSE Returned([buffer |-> state.buffer \o chunk.value,
                 finalized |-> state.finalized])

\* parseChunk(chunk) on the incremental state: the state it leaves, or the
\* Error it throws
parseChunk(state, chunk) ==
  IF chunk.typeof # "string" THEN Thrown("Chunk must be a string")
  ELSE IF state.finalized
  THEN Thrown("Cannot add chunks after parsing has been finalized")
  ELSE Returned([buffer |-> state.buffer \o chunk.value,
                 finalized |-> state.finalized])

\* the incremental state resetChunks assigns
resetChunks == [buffer |-> <<>>, finalized |-> FALSE]

\* largest number of parseChunk, finalizeChunks and resetChunks calls
MaxChunkCalls == 5

StringChunk(s) == [typeof |-> "string", value |-> s]

\* the chunks given to parseChunk: pieces of a request line, a delimiter
\* with a response line, and a value that is not a string
Chunks ==
  { StringChunk(<<"G", "E">>),
    StringChunk(<<"T", " ", "/", "a">> \o LF),
    StringChunk(<<"#", "#", "#">> \o LF \o <<"H", "T", "T", "P", "/", "1", " ", "2", "0", "0">>),
    [typeof |-> "number", value |-> <<>>] }

\* a parser just constructed: no parseText call is running
InitChunks ==
  /\ pc = "idle"
  /\ text = <<>>
  /\ \E strict \in BOOLEAN : options = [strict |-> strict]
  /\ lineContexts = <<>>
  /\ segments = <<>>
  /\ scanResult = [fileVariables |-> <<>>]
  /\ registry = [variables |-> {}, segmentVariables |-> {}]
  /\ classifiedSegments = <<>>
  /\ parsedNodes = <<>>
  /\ linkIndex = 0
  /\ requests = <<>>
  /\ lastRequest = 0
  /\ warnings = <<>>
  /\ result = NoResult
  /\ error = NoError
  /\ incrementalState = [buffer |-> <<>>, finalized |-> FALSE]
  /\ pending = <<>>
  /\ history = <<>>
  /\ input = <<>>
  /\ output = <<>>

\* no parseText call is running: the parser can be called
Callable == pc \in {"idle", "done", "thrown"} /\ Len(history) < MaxChunkCalls

\* parser.parseChunk(chunk)
ParseChunk ==
  /\ Callable
  /\ \E chunk \in Chunks :
       \E r \in {parseChunk(incrementalState, chunk)} :
         /\ incrementalState' =
              IF r.threw THEN incrementalState ELSE r.value
         /\ output' = Some(r)
         /\ history' = Append(history, [call |-> "parseChunk",
                                        chunk |-> chunk,
                                        threw |-> r.threw])
  /\ UNCHANGED <<pc, text, options, lineContexts, segments, scanResult,
                 registry, classifiedSegments, parsedNodes, linkIndex,
                 requests, lastRequest, warnings, result, error, pending,
                 input>>

\* parser.finalizeChunks(): the flag is set and parseText is entered with
\* the buffer
FinalizeChunks ==
  /\ Callable
  /\ incrementalState' = [incrementalState EXCEPT !.finalized = TRUE]
  /\ history' = Append(history, [call |-> "finalizeChunks",
                                 chunk |-> StringChunk(<<>>),
                                 threw |-> FALSE])
  /\ text' = incrementalState.buffer
  /\ pc' = "start"
  /\ lineContexts' = <<>>
  /\ segments' = <<>>
  /\ scanResult' = [fileVariables |-> <<>>]
  /\ classifiedSegments' = <<>>
  /\ parsedNodes' = <<>>
  /\ linkIndex' = 0
  /\ requests' = <<>>
  /\ lastRequest' = 0
  /\ result' = NoResult
  /\ error' = NoError
  /\ output' = <<>>
  /\ UNCHANGED <<options, registry, warnings, pending, input>>

\* parser.resetChunks()
ResetChunks ==
  /\ Callable
  /\ incrementalState' = resetChunks
  /\ history' = Append(history, [call |-> "resetChunks",
                                 chunk |-> StringChunk(<<>>),
                                 threw |-> FALSE])
  /\ output' = <<>>
  /\ UNCHANGED <<pc, text, options, lineContexts, segments, scanResult,
                 registry, classifiedSegments, parsedNodes, linkIndex,
                 requests, lastRequest, warnings, result, error, pending,
                 input>>

NextChunks == Next \/ ParseChunk \/ FinalizeChunks \/ ResetChunks
SpecChunks == InitChunks /\ [][NextChunks]_vars

NextScan == ScanLines
SpecScan == InitScan /\ [][NextScan]_vars

\* the whole of parseText on the raw texts of SpecScan
SpecRawText == InitScan /\ [][Next]_vars

NextSeg == ScanLines \/ CreateSegments
SpecSeg == InitSeg /\ [][NextSeg]_vars

\* ------------------------------------------------------------------------
\* Documents for the classifier (SpecClassify)
\* ------------------------------------------------------------------------
\* largest number of lines of a document given to the classifier
MaxClassLines == 3

\* line texts of the classified documents
ClassLineTexts ==
  { <<"#", " ", "c">>,
    <<"/", "/", " ", "c">>,
    <<"@", "v", "=", "1">>,
    <<>>,
    <<"G", "E", "T", " ", "/", "a">>,
    <<" ", "h", "t", "t", "p", "/", "1", " ", "2", "0", "0">>,
    <<"H", "T", "T", "P", " ", "2", "0", "0">>,
    <<" ", "C", "u", "r", "l", " ", "/", "u">>,
    <<"x", "-", "r", "e", "q", "u", "e", "s", "t", "-", "t", "y", "p", "e", ":", " ", " ", "G", "r", "a", "p", "h", "Q", "L">> }

InitClassify ==
  /\ \E d \in SeqsUpTo(ClassLineTexts, MaxClassLines) : Fresh(Join(d, LF), FALSE)
  /\ SingleCall

NextClassify == ScanLines \/ CreateSegments \/ ScanVariables \/ ClassifySegments
SpecClassify == InitClassify /\ [][NextClassify]_vars

\* ------------------------------------------------------------------------
\* BodyParser.parse called on its own (SpecBody)
\* ------------------------------------------------------------------------
\* longest body text drawn from BodyAlphabet
MaxBodyLen == 3

\* characters of the enumerated bodies: form syntax, the escape %44 and its
\* truncations, a digit, white space, a line break and a two-byte character
BodyAlphabet == {"k", "=", "&", "%", "4", " ", "\n", "é"}

\* longer bodies: JSON values, form fields with repeated keys and escapes
\* and multipart bodies with the boundary k
CraftedBodies ==
  { <<"a", "+", "b", "=", "c", "+", "d", "&", "a", "+", "b", "=", "%", "4", "a", "&", "=", "%">>,
    <<"k", "=", "%", "c", "3", "%", "a", "9", "&", "j", "=", "%", "a", "a">>,
    <<"{", "\"", "a", "\"", ":", "1", "}">>,
    <<"{", "i", "n", "v", "a", "l", "i", "d">>,
    <<"[", "4", ",", " ", "[", "t", "r", "u", "e", "]", ",", " ", "\"", "s", "\"", "]">>,
    <<"-", "-", "k", "\n", "C", "o", "n", "t", "e", "n", "t", "-", "D", "i", "s", "p", "o", "s", "i", "t", "i", "o", "n", ":", " ", "f", "o", "r", "m", "-", "d", "a", "t", "a", ";", " ", "n", "a", "m", "e", "=", "\"", "f", "\"", "\n", "\n", "v", "\n", "-", "-", "k", "-", "-">>,
    <<"-", "-", "k", "\n", "C", "o", "n", "t", "e", "n", "t", "-", "D", "i", "s", "p", "o", "s", "i", "t", "i", "o", "n", ":", " ", "f", "o", "r", "m", "-", "d", "a", "t", "a", ";", " ", "f", "i", "l", "e", "n", "a", "m", "e", "=", "\"", "n", ".", "t", "x", "t", "\"", "\n", "v", "\n", "-", "-", "k", "\n", "X", ":", " ", "y", "\n", "\n", "w">> }

BodyTexts == SeqsUpTo(BodyAlphabet, MaxBodyLen) \cup CraftedBodies

Header(name, value) == [name |-> name, value |-> value]

\* the header lists given with a body
BodyHeaders ==
  { <<>>,
    <<Header(<<"C", "o", "n", "t", "e", "n", "t", "-", "T", "y", "p", "e">>, <<"a", "p", "p", "l", "i", "c", "a", "t", "i", "o", "n", "/", "j", "s", "o", "n">>)>>,
    <<Header(<<"c", "o", "n", "t", "e", "n", "t", "-", "t", "y", "p", "e">>, <<"T", "e", "x", "t", "/", "J", "S", "O", "N", ";", " ", "c", "h", "a", "r", "s", "e", "t", "=", "u", "t", "f", "-", "8">>)>>,
    <<Header(<<"C", "o", "n", "t", "e", "n", "t", "-", "T", "y", "p", "e">>, <<"a", "p", "p", "l", "i", "c", "a", "t", "i", "o", "n", "/", "x", "-", "w", "w", "w", "-", "f", "o", "r", "m", "-", "u", "r", "l", "e", "n", "c", "o", "d", "e", "d">>)>>,
    <<Header(<<"C", "o", "n", "t", "e", "n", "t", "-", "T", "y", "p", "e">>, <<"m", "u", "l", "t", "i", "p", "a", "r", "t", "/", "f", "o", "r", "m", "-", "d", "a", "t", "a", ";", " ", "b", "o", "u", "n", "d", "a", "r", "y", "=", "\"", "k", "\"">>)>>,
    <<Header(<<"C", "o", "n", "t", "e", "n", "t", "-", "T", "y", "p", "e">>, <<"m", "u", "l", "t", "i", "p", "a", "r", "t", "/", "f", "o", "r", "m", "-", "d", "a", "t", "a">>)>>,
    <<Header(<<"A", "c", "c", "e", "p", "t">>, <<"*", "/", "*">>), Header(<<"C", "o", "n", "t", "e", "n", "t", "-", "T", "y", "p", "e">>, <<"t", "e", "x", "t", "/", "p", "l", "a", "i", "n">>)>> }

\* the arguments of a call: no line at all, or the lines of a body text
InitBody ==
  /\ Fresh(<<>>, FALSE)
  /\ pending = <<>>
  /\ history = <<>>
  /\ output = <<>>
  /\ \E hs \in BodyHeaders :
       \/ input = Some([lines |-> <<>>, headers |-> hs])
       \/ \E t \in BodyTexts :
            input = Some([lines |-> LineScanner_scan(t), headers |-> hs])

\* bodyParser.parse(lines, headers)
ParseBody ==
  /\ input # <<>>
  /\ output = <<>>
  /\ output' = Some(BodyParser_parse(input[1].lines, input[1].headers))
  /\ UNCHANGED <<pc, text, options, lineContexts, segments, scanResult,
                 registry, classifiedSegments, parsedNodes, linkIndex,
                 requests, lastRequest, warnings, result, error, pending,
                 history, input, incrementalState>>

NextBody == ParseBody
SpecBody == InitBody /\ [][NextBody]_vars

\* ------------------------------------------------------------------------
\* QueryParser.parse and HeaderParser.parse called on their own
\* (SpecQuery, SpecHeader)
\* ------------------------------------------------------------------------
\* largest number of lines given to QueryParser.parse or HeaderParser.parse
MaxParserLines == 3

\* line texts given to the two parsers: query continuations (indented, bare,
\* without value, padded), headers (with an empty name, with a second
\* colon), a blank line and a line that is neither
ParserLineTexts ==
  { <<"?", "a", "=", "1">>,
    <<"&", "b", "=", "2">>,
    <<" ", "?", "c">>,
    <<"?">>,
    <<" ", "&", " ", "d", " ", "=", " ", "3", " ">>,
    <<"X", ":", " ", "y">>,
    <<":", " ", "v">>,
    <<"k", ":", "v", ":", "w">>,
    <<" ">>,
    <<"b", "o", "d", "y">> }

\* the arguments of a call: the lines of the given texts, numbered from 1
InitLines ==
  /\ Fresh(<<>>, FALSE)
  /\ pending = <<>>
  /\ history = <<>>
  /\ output = <<>>
  /\ \E d \in SeqsUpTo(ParserLineTexts, MaxParserLines) :
       input = Some([lines |-> IF d = <<>> THEN <<>>
                               ELSE LineScanner_scan(Join(d, LF))])

\* queryParser.parse(lines)
ParseQuery ==
  /\ input # <<>>
  /\ output = <<>>
  /\ output' = Some(QueryParser_parse(input[1].lines))
  /\ UNCHANGED <<pc, text, options, lineContexts, segments, scanResult,
                 registry, classifiedSegments, parsedNodes, linkIndex,
                 requests, lastRequest, warnings, result, error, pending,
                 history, input, incrementalState>>

NextQuery == ParseQuery
SpecQuery == InitLines /\ [][NextQuery]_vars

\* headerParser.parse(lines)
ParseHeaders ==
  /\ input # <<>>
  /\ output = <<>>
  /\ output' = Some(HeaderParser_parse(input[1].lines))
  /\ UNCHANGED <<pc, text, options, lineContexts, segments, scanResult,
                 registry, classifiedSegments, parsedNodes, linkIndex,
                 requests, lastRequest, warnings, result, error, pending,
                 history, input, incrementalState>>

NextHeader == ParseHeaders
SpecHeader == InitLines /\ [][NextHeader]_vars

\* ------------------------------------------------------------------------
\* CurlParser.parse called on its own (SpecCurl)
\* ------------------------------------------------------------------------
\* largest number of options of a curl command
MaxCurlOptions == 3

\* the data flags of curl
DataFlags ==
  { <<"-", "d">>, <<"-", "-", "d", "a", "t", "a">>, <<"-", "-", "d", "a", "t", "a", "-", "r", "a", "w">>, <<"-", "-", "d", "a", "t", "a", "-", "b", "i", "n", "a", "r", "y">>, <<"-", "-", "d", "a", "t", "a", "-", "u", "r", "l", "e", "n", "c", "o", "d", "e">> }

\* the options given to the commands: the data flags, a method and a header
CurlFlags == DataFlags \cup { <<"-", "X">>, <<"-", "H">> }

\* the value written after the flag at the position k of a command
CurlValue(flag, k) ==
  IF flag = <<"-", "X">> THEN <<"p", "u", "t">>
  ELSE IF flag = <<"-", "H">> THEN <<"k", ":", "v">>
  ELSE <<<<"a">>, <<"b">>, <<"c">>, <<"d">>, <<"e">>>>[k]

\* curl http://x followed by the flags fs, each with its value
CurlCommand(fs) ==
  Join(<<<<"c", "u", "r", "l">>, <<"h", "t", "t", "p", ":", "/", "/", "x">>>>
         \o [i \in 1..(2 * Len(fs)) |->
               IF i % 2 = 1 THEN fs[(i + 1) \div 2]
               ELSE CurlValue(fs[i \div 2], i \div 2)],
       <<" ">>)

InitCurl ==
  /\ Fresh(<<>>, FALSE)
  /\ pending = <<>>
  /\ history = <<>>
  /\ output = <<>>
  /\ \E fs \in SeqsUpTo(CurlFlags, MaxCurlOptions) :
       input = Some([flags |-> fs, lines |-> LineScanner_scan(CurlCommand(fs))])

\* curlParser.parse(lines)
ParseCurl ==
  /\ input # <<>>
  /\ output = <<>>
  /\ output' = Some(CurlParser_parse(input[1].lines))
  /\ UNCHANGED <<pc, text, options, lineContexts, segments, scanResult,
                 registry, classifiedSegments, parsedNodes, linkIndex,
                 requests, lastRequest, warnings, result, error, pending,
                 history, input, incrementalState>>

NextCurl == ParseCurl
SpecCurl == InitCurl /\ [][NextCurl]_vars

\* ------------------------------------------------------------------------
\* The request-line and response-line parsers called on their own
\* (SpecRequestLine, SpecResponseLine)
\* ------------------------------------------------------------------------
\* largest number of tokens of a line
MaxTokens == 3

LineTokens ==
  { <<"G", "E", "T">>, <<"g", "e", "t">>, <<"P", "U", "R", "G", "E">>, <<"/", "a">>, <<"h", "t", "t", "p", ":", "/", "/", "x">>, <<"H", "T", "T", "P", "/", "1", ".", "1">>,
    <<"h", "t", "t", "p", "/", "1", ".", "1">>, <<"2", "0", "0">>, <<"0", "0", "7">>, <<"O", "K">> }

\* the tokens written one space apart, or with wider gaps and margins
TokenLine(ts, wide) ==
  IF wide THEN <<" ", " ">> \o Join(ts, <<" ", " ">>) \o <<" ">>
  ELSE Join(ts, <<" ">>)

InitTokens ==
  /\ Fresh(<<>>, FALSE)
  /\ pending = <<>>
  /\ history = <<>>
  /\ output = <<>>
  /\ \E ts \in SeqsUpTo(LineTokens, MaxTokens), wide \in BOOLEAN :
       input = Some([tokens |-> ts, line |-> TokenLine(ts, wide)])

\* requestLineParser.parse(line)
ParseRequestLine ==
  /\ input # <<>>
  /\ output = <<>>
  /\ output' = Some(HTTPRequestLineParser_parse(input[1].line))
  /\ UNCHANGED <<pc, text, options, lineContexts, segments, scanResult,
                 registry, classifiedSegments, parsedNodes, linkIndex,
                 requests, lastRequest, warnings, result, error, pending,
                 history, input, incrementalState>>

NextRequestLine == ParseRequestLine
SpecRequestLine == InitTokens /\ [][NextRequestLine]_vars

\* responseLineParser.parse(text)
ParseResponseLine ==
  /\ input # <<>>
  /\ output = <<>>
  /\ output' = Some(ResponseLineParser_parse(input[1].line))
  /\ UNCHANGED <<pc, text, options, lineContexts, segments, scanResult,
                 registry, classifiedSegments, parsedNodes, linkIndex,
                 requests, lastRequest, warnings, result, error, pending,
                 history, input, incrementalState>>

NextResponseLine == ParseResponseLine
SpecResponseLine == InitTokens /\ [][NextResponseLine]_vars

\* ------------------------------------------------------------------------
\* Properties of LineScanner.scan (SpecScan)
\* ------------------------------------------------------------------------
NumLines == Len(lineContexts)

\* the characters of the text between line k and line k + 1
Separator(k) ==
  Slice(text, lineContexts[k].endOffset, lineContexts[k + 1].startOffset)

LineBreaks == {<<"\n">>, <<"\r", "\n">>, <<"\r">>}

\* line k, its separator, line k + 1, its separator, ..., the last line
RECURSIVE Reconstruct(_)
Reconstruct(k) ==
  IF k >= NumLines THEN lineContexts[k].text
  ELSE lineContexts[k].text \o Separator(k) \o Reconstruct(k + 1)

\* C1: every line's text is the slice of the input at its offsets, the first
\* line starts at offset 0, the last line ends at the length of the input,
\* what lies between two consecutive lines is one of \n, \r\n, \r, and the
\* line texts joined by these separators are the input.
C1_LinesReconstructText ==
  pc = "scanned" =>
    /\ NumLines >= 1
    /\ \A k \in 1..NumLines :
         Slice(text, lineContexts[k].startOffset, lineContexts[k].endOffset)
           = lineContexts[k].text
    /\ lineContexts[1].startOffset = 0
    /\ lineContexts[NumLines].endOffset = Len(text)
    /\ \A k \in 1..(NumLines - 1) : Separator(k) \in LineBreaks
    /\ Reconstruct(1) = text

\* a scanned text in which each of the three line breaks separates two lines
C1_Witness ==
  /\ pc = "scanned"
  /\ \A b \in LineBreaks : \E k \in 1..(NumLines - 1) : Separator(k) = b

\* ------------------------------------------------------------------------
\* Properties of Segmenter.segment (SpecSeg)
\* ------------------------------------------------------------------------
\* t is: whitespace, then three or more '#', then whitespace, nothing else
MatchesDelimiterPattern(t) ==
  \E i \in 0..Len(t), j \in 0..Len(t) :
    /\ i + 3 <= j
    /\ \A p \in 1..i : IsSpace(t[p])
    /\ \A p \in (i + 1)..j : t[p] = "#"
    /\ \A p \in (j + 1)..Len(t) : IsSpace(t[p])

IsBlankText(t) == \A p \in 1..Len(t) : IsSpace(t[p])

DelimiterAt(k) == MatchesDelimiterPattern(lineContexts[k].text)

\* C2: no line of an emitted segment matches the delimiter pattern.
C2_NoDelimiterInSegments ==
  pc = "segmented" =>
    \A s \in 1..Len(segments) : \A k \in 1..Len(segments[s].lines) :
      ~MatchesDelimiterPattern(segments[s].lines[k].text)

\* two segments were emitted from a document that has a delimiter line of
\* more than three '#'
C2_Witness ==
  /\ pc = "segmented"
  /\ Len(segments) >= 2
  /\ \E k \in 1..NumLines :
       DelimiterAt(k) /\ Len(Trim(lineContexts[k].text)) > 3

\* C3: the emitted segments carry the ids 0, 1, ..., N-1 in document order.
C3_SegmentIdsAreDense ==
  pc = "segmented" =>
    \A s \in 1..Len(segments) : segments[s].segmentId = s - 1

\* lines a..b are a maximal run of consecutive non-delimiter lines
IsRun(a, b) ==
  /\ 1 <= a /\ a <= b /\ b <= NumLines
  /\ \A k \in a..b : ~DelimiterAt(k)
  /\ a = 1 \/ DelimiterAt(a - 1)
  /\ b = NumLines \/ DelimiterAt(b + 1)

HasNonBlankLine(a, b) == \E k \in a..b : ~IsBlankText(lineContexts[k].text)

SurvivingRuns ==
  {r \in (1..NumLines) \X (1..NumLines) :
     IsRun(r[1], r[2]) /\ HasNonBlankLine(r[1], r[2])}

\* C4: the emitted segments are, in document order, exactly the maximal runs
\* of non-delimiter lines that have a non-blank line; a segment holds all the
\* lines of its run and startLine/endLine are the numbers of its first and
\* last line.
C4_SegmentsAreSurvivingRuns ==
  pc = "segmented" =>
    /\ Len(segments) = Cardinality(SurvivingRuns)
    /\ \A s \in 1..Len(segments) : \E r \in SurvivingRuns :
         /\ segments[s].lines = SubSeq(lineContexts, r[1], r[2])
         /\ segments[s].startLine = lineContexts[r[1]].lineNumber
         /\ segments[s].endLine = lineContexts[r[2]].lineNumber
    /\ \A s \in 1..(Len(segments) - 1) :
         segments[s].endLine < segments[s + 1].startLine

\* a segment with a blank line in it was emitted, a whitespace-only run was
\* dropped, and two delimiters follow each other
C4_Witness ==
  /\ pc = "segmented"
  /\ \E s \in 1..Len(segments) : \E k \in 1..Len(segments[s].lines) :
       IsBlankText(segments[s].lines[k].text)
  /\ \E a \in 1..NumLines, b \in 1..NumLines :
       IsRun(a, b) /\ ~HasNonBlankLine(a, b)
  /\ \E k \in 1..(NumLines - 1) : DelimiterAt(k) /\ DelimiterAt(k + 1)

\* ------------------------------------------------------------------------
\* Properties of response linking (Spec)
\* ------------------------------------------------------------------------
Ast == result[1].ast

\* positions, in the sequence of parsed segment nodes, of the Request nodes
\* and of the ExpectedResponse nodes
RequestPositions ==
  {j \in 1..Len(parsedNodes) :
     parsedNodes[j] # None /\ "url" \in DOMAIN parsedNodes[j][1]}
ResponsePositions ==
  {j \in 1..Len(parsedNodes) :
     parsedNodes[j] # None /\ "statusCode" \in DOMAIN parsedNodes[j][1]}

\* position of the i-th Request node
PositionOfRequest(i) ==
  CHOOSE j \in RequestPositions :
    Cardinality({k \in RequestPositions : k <= j}) = i

\* positions of the responses that follow the i-th request before the next
\* request or the end of the document
ResponsesAfterRequest(i) ==
  {j \in ResponsePositions :
     /\ PositionOfRequest(i) < j
     /\ \A k \in RequestPositions : k > PositionOfRequest(i) => j < k}

Maximum(S) == CHOOSE x \in S : \A y \in S : y <= x

\* C5: ast.requests is the Request nodes in document order, and a request's
\* expectedResponse, when set, is a response node that lies after that
\* request and before the next Request node.
C5_ResponseLinkedToMostRecentRequest ==
  pc = "done" =>
    /\ Len(Ast.requests) = Cardinality(RequestPositions)
    /\ \A i \in 1..Len(Ast.requests) :
         /\ [Ast.requests[i] EXCEPT !.expectedResponse = None]
              = parsedNodes[PositionOfRequest(i)][1]
         /\ Ast.requests[i].expectedResponse # None =>
              \E j \in ResponsesAfterRequest(i) :
                Ast.requests[i].expectedResponse = parsedNodes[j]

\* two requests, a response between them linked to the first one, and a
\* later request left without a response
C5_Witness ==
  /\ pc = "done"
  /\ Len(Ast.requests) >= 2
  /\ Ast.requests[1].expectedResponse # None
  /\ \E j \in ResponsePositions :
       PositionOfRequest(1) < j /\ j < PositionOfRequest(2)
  /\ Ast.requests[2].expectedResponse = None

OrphanPositions ==
  {j \in ResponsePositions : \A k \in RequestPositions : j < k}

\* the requests of the document, each with the last response that follows it
\* before the next request; the strict option does not occur in it
LinkedRequests ==
  [i \in 1..Cardinality(RequestPositions) |->
     [parsedNodes[PositionOfRequest(i)][1] EXCEPT !.expectedResponse =
        IF ResponsesAfterRequest(i) = {} THEN None
        ELSE parsedNodes[Maximum(ResponsesAfterRequest(i))]]]

RECURSIVE StartLinesOf(_, _)
StartLinesOf(positions, j) ==
  IF j > Len(parsedNodes) THEN <<>>
  ELSE (IF j \in positions
        THEN <<parsedNodes[j][1].rawTextRange.startLine>> ELSE <<>>)
       \o StartLinesOf(positions, j + 1)

DelimiterLineNumbers ==
  {lineContexts[k].lineNumber : k \in {n \in 1..NumLines : DelimiterAt(n)}}

BeforeFirstDelimiter(variable) ==
  \A d \in DelimiterLineNumbers : variable.lineNumber < d

\* C8: ast.fileScopedVariables is exactly the definitions whose line number
\* is smaller than the line number of the first delimiter line (all the
\* definitions when the document has no delimiter line).
C8_FileScopedPrecedeFirstDelimiter ==
  pc = "done" =>
    Ast.fileScopedVariables.fileVariables
      = SelectSeq(Ast.globalVariables.fileVariables, BeforeFirstDelimiter)

\* line numbers of the definitions reported in ast.fileScopedVariables
FileScopedLines ==
  {Ast.fileScopedVariables.fileVariables[i].lineNumber :
     i \in 1..Len(Ast.fileScopedVariables.fileVariables)}

\* line numbers of the definitions reported in the blockVariables of request r
BlockLines(r) ==
  {r.blockVariables.fileVariables[i].lineNumber :
     i \in 1..Len(r.blockVariables.fileVariables)}

TripleHashLineNumbers ==
  {lineContexts[k].lineNumber : k \in
     {n \in 1..NumLines :
        /\ DelimiterAt(n)
        /\ Cardinality({p \in 1..Len(lineContexts[n].text) :
                          lineContexts[n].text[p] = "#"}) = 3}}

HasInvalidMethod(s) ==
  /\ classifiedSegments[s].messageType = "request"
  /\ classifiedSegments[s].firstNonEmptyLine.text # <<>>
  /\ LET parts == SplitWS(Trim(classifiedSegments[s].firstNonEmptyLine.text))
     IN Len(parts) >= 2 /\ ToUpperCase(parts[1]) \notin VALID_HTTP_METHODS

\* C10: when the request line of a segment has an invalid method token,
\* parseText does not throw but returns a result, and the requests of all
\* the other request segments are in ast.requests.
C10_InvalidMethodIsLocalized ==
  (\E s \in 1..Len(classifiedSegments) : HasInvalidMethod(s)) =>
    /\ pc # "thrown"
    /\ pc = "done" =>
         \A s \in 1..Len(classifiedSegments) :
           (/\ classifiedSegments[s].messageType = "request"
            /\ classifiedSegments[s].firstNonEmptyLine.text # <<>>
            /\ ~HasInvalidMethod(s)) =>
             \E i \in 1..Len(Ast.requests) :
               Ast.requests[i].rawTextRange
                 = RawTextRange(classifiedSegments[s])

\* ------------------------------------------------------------------------
\* Properties of BodyParser.parse (SpecBody)
\* ------------------------------------------------------------------------
\* the arguments and the outcome of the call
GivenLines == input[1].lines
GivenHeaders == input[1].headers
Outcome == output[1]

\* the texts of the given lines joined by line feeds
GivenRaw == Join([i \in 1..Len(GivenLines) |-> GivenLines[i].text], LF)

\* the value of the first Content-Type header, compared without case
GivenContentType ==
  LET isContentType(i) == ToLowerCase(GivenHeaders[i].name) = <<"c", "o", "n", "t", "e", "n", "t", "-", "t", "y", "p", "e">>
  IN IF \E i \in 1..Len(GivenHeaders) : isContentType(i)
     THEN Some(GivenHeaders[CHOOSE i \in 1..Len(GivenHeaders) :
                 isContentType(i) /\ \A j \in 1..(i - 1) : ~isContentType(j)].value)
     ELSE None

GivenTypeIncludes(sub) ==
  GivenContentType # None /\ IncludesText(ToLowerCase(GivenContentType[1]), sub)

IsJsonType ==
  GivenTypeIncludes(<<"a", "p", "p", "l", "i", "c", "a", "t", "i", "o", "n", "/", "j", "s", "o", "n">>) \/ GivenTypeIncludes(<<"t", "e", "x", "t", "/", "j", "s", "o", "n">>)
IsFormType == GivenTypeIncludes(<<"a", "p", "p", "l", "i", "c", "a", "t", "i", "o", "n", "/", "x", "-", "w", "w", "w", "-", "f", "o", "r", "m", "-", "u", "r", "l", "e", "n", "c", "o", "d", "e", "d">>)
IsMultipartType == GivenTypeIncludes(<<"m", "u", "l", "t", "i", "p", "a", "r", "t", "/", "f", "o", "r", "m", "-", "d", "a", "t", "a">>)

IsBlankBody == \A i \in 1..Len(GivenRaw) : IsSpace(GivenRaw[i])

\* a key=value pair of a form body whose key or value cannot be decoded
UndecodablePair(pair) ==
  LET parts == Split(pair, <<"=">>)
  IN /\ parts[1] # <<>>
     /\ \/ decodeURIComponent(Trim(parts[1])).threw
        \/ Len(parts) >= 2 /\ decodeURIComponent(PlusToSpace(parts[2])).threw

\* the three ways the parsing of a body that is not blank fails
ParsingFails ==
  /\ ~IsBlankBody
  /\ \/ IsJsonType /\ JSON_parse(Trim(GivenRaw)).threw
     \/ /\ ~IsJsonType /\ IsFormType
        /\ \E k \in 1..Len(Split(GivenRaw, <<"&">>)) :
             UndecodablePair(Split(GivenRaw, <<"&">>)[k])
     \/ /\ ~IsJsonType /\ ~IsFormType /\ IsMultipartType
        /\ ~IncludesText(ToLowerCase(GivenContentType[1]), <<"b", "o", "u", "n", "d", "a", "r", "y", "=">>)

Utf8Size(s) == Len(s) + Cardinality({i \in 1..Len(s) : s[i] = "é"})

\* C11: BodyParser.parse never throws: whatever the lines and the headers,
\* it returns a result whose status is 'parsed' or 'error'; the status is
\* 'error' exactly when the parsing of the body fails (invalid JSON under a
\* JSON content type, an undecodable form key or value, a multipart content
\* type without boundary), and the error result carries the raw joined text,
\* the content type, the size in UTF-8 bytes and a message.
C11_BodyParserNeverThrows ==
  output # <<>> =>
    /\ ~Outcome.threw
    /\ Outcome.value.status \in {"parsed", "error"}
    /\ (Outcome.value.status = "error") <=> ParsingFails
    /\ ParsingFails =>
         /\ Outcome.value.raw = GivenRaw
         /\ Outcome.value.contentType = GivenContentType
         /\ Outcome.value.size = Utf8Size(GivenRaw)
         /\ Outcome.value.error.message \in
              {"Invalid JSON", "URI malformed",
               "Missing boundary in Content-Type header"}

\* an undecodable form value in a body with a two-byte character gave an
\* error result
C11_Witness ==
  /\ output # <<>>
  /\ ~Outcome.threw
  /\ Outcome.value.status = "error"
  /\ Outcome.value.error.message = "URI malformed"
  /\ Outcome.value.size > Len(Outcome.value.raw)

\* C20: for every body whose raw text is empty or only white space, a body
\* of no lines included, BodyParser.parse returns status 'parsed' with the
\* empty text, or with a form of no fields when the Content-Type is
\* application/x-www-form-urlencoded.
C20_BlankBodyIsEmptyTextOrForm ==
  (output # <<>> /\ IsBlankBody) =>
    /\ ~Outcome.threw
    /\ Outcome.value.status = "parsed"
    /\ Outcome.value.content.body =
         IF IsFormType THEN [kind |-> "form", fields |-> <<>>]
         ELSE [kind |-> "text", text |-> <<>>]

\* ------------------------------------------------------------------------
\* Properties of consecutive parseText calls (SpecCalls)
\* ------------------------------------------------------------------------
\* the registry a call on the text t alone leaves
RegistryOf(t) ==
  PopulateRegistry(VariableScanner_scan(Segmenter_segment(LineScanner_scan(t))))

Anchor(c) == c.firstNonEmptyLine
HasAnchor(c) == Anchor(c).text # <<>>

\* the index in the segment of the line the anchor was taken from
AnchorIndex(c) ==
  CHOOSE i \in 1..Len(c.lines) : c.lines[i].lineNumber = Anchor(c).lineNumber

StartsWithIgnoringCase(s, p) == StartsWith(ToLowerCase(s), ToLowerCase(p))

\* a line X-Request-Type: GraphQL lies after the anchor with no blank line
\* between the anchor and it
GraphQLHeaderBeforeBlank(c) ==
  \E j \in (AnchorIndex(c) + 1)..Len(c.lines) :
    /\ IsGraphQLHeader(Trim(c.lines[j].text))
    /\ \A k \in (AnchorIndex(c) + 1)..j : ~IsBlankText(c.lines[k].text)

\* what the classification of a segment is, given whether its anchor counts
\* as a curl command
FollowsAnchor(c, isCurlAnchor) ==
  IF HasAnchor(c)
  THEN /\ (c.messageType = "response")
            <=> StartsWithIgnoringCase(TrimStart(Anchor(c).text), <<"H", "T", "T", "P", "/">>)
       /\ (c.messageType = "request")
            <=> ~StartsWithIgnoringCase(TrimStart(Anchor(c).text), <<"H", "T", "T", "P", "/">>)
       /\ (c.segmentType = "curl") <=> isCurlAnchor
       /\ (c.segmentType = "graphql")
            <=> (~isCurlAnchor /\ GraphQLHeaderBeforeBlank(c))
       /\ (c.segmentType = "http")
            <=> (~isCurlAnchor /\ ~GraphQLHeaderBeforeBlank(c))
  ELSE /\ c.messageType = "request"
       /\ c.segmentType = "http"
       /\ \A i \in 1..Len(c.lines) : ~IsSignificantText(c.lines[i].text)

\* C13 as stated: for every classified segment with an anchor, messageType
\* is response iff the left-trimmed anchor starts with HTTP/ whatever the
\* case (otherwise request); segmentType is curl iff the lower-cased anchor,
\* taken as it stands, starts with curl, otherwise graphql iff a line
\* X-Request-Type: GraphQL lies between the anchor and the first blank line
\* after it, otherwise http; a segment without anchor is request/http with
\* an empty anchor text.
C13_CurlAnchorAsItStands ==
  \A n \in 1..Len(classifiedSegments) :
    LET c == classifiedSegments[n]
    IN FollowsAnchor(c, StartsWith(ToLowerCase(Anchor(c).text), <<"c", "u", "r", "l">>))

\* C13 amended: the same, with curl decided on the left-trimmed lower-cased
\* anchor, as the message type is.
C13_ClassificationFollowsAnchor ==
  \A n \in 1..Len(classifiedSegments) :
    LET c == classifiedSegments[n]
    IN FollowsAnchor(c, StartsWith(ToLowerCase(TrimStart(Anchor(c).text)), <<"c", "u", "r", "l">>))

\* an indented curl command following a comment, classified curl although a
\* GraphQL header follows it
C13_Witness ==
  \E n \in 1..Len(classifiedSegments) :
    LET c == classifiedSegments[n]
    IN /\ c.messageType = "request"
       /\ c.segmentType = "curl"
       /\ Anchor(c).text = <<" ", "C", "u", "r", "l", " ", "/", "u">>
       /\ AnchorIndex(c) = 2
       /\ GraphQLHeaderBeforeBlank(c)

IsCommentText(lineText) ==
  StartsWith(Trim(lineText), <<"#">>) \/ StartsWith(Trim(lineText), <<"/", "/">>)
IsDirectiveText(lineText) == StartsWith(Trim(lineText), <<"@">>)

\* the lines that are not blank, not a comment and not a directive
ContentLines(c) ==
  {i \in 1..Len(c.lines) :
     /\ ~IsBlankText(c.lines[i].text)
     /\ ~IsCommentText(c.lines[i].text)
     /\ ~IsDirectiveText(c.lines[i].text)}

\* C14: for every segment, the classifier's firstNonEmptyLine is the first
\* line that is not blank, not a comment line (# or //) and not a directive
\* line (@); a // comment is never the anchor when a later line qualifies.
C14_AnchorSkipsComments ==
  \A n \in 1..Len(classifiedSegments) :
    LET c == classifiedSegments[n]
        first == CHOOSE i \in ContentLines(c) : \A j \in ContentLines(c) : i <= j
    IN IF ContentLines(c) = {} THEN Anchor(c).text = <<>>
       ELSE /\ Anchor(c).lineNumber = c.lines[first].lineNumber
            /\ Anchor(c).text = c.lines[first].text

\* ------------------------------------------------------------------------
\* Properties of QueryParser.parse (SpecQuery)
\* ------------------------------------------------------------------------
\* the left-trimmed text begins with ? or &
BeginsQuery(lineText) ==
  LET l == TrimStart(lineText)
  IN l # <<>> /\ l[1] \in {"?", "&"}

\* the lines among the first n that carry a parameter: something other than
\* white space follows the ? or &
CarryingLines(ls, n) ==
  {i \in 1..n : BeginsQuery(ls[i].text) /\ Trim(Tail(TrimStart(ls[i].text))) # <<>>}

\* C15: QueryParser.parse consumes exactly the longest prefix of lines whose
\* left-trimmed text begins with ? or &: every consumed line matches, the
\* line after the consumed ones, if any, does not, no line after it is
\* consumed, and the parameters are those of the consumed lines in the
\* order of the lines.
C15_QueryConsumesLongestPrefix ==
  output # <<>> =>
    LET ls == GivenLines
        n == Outcome.consumedLinesCount
        params == Outcome.queryParams
        rank(i) == Cardinality({j \in CarryingLines(ls, n) : j <= i})
    IN /\ n \in 0..Len(ls)
       /\ \A i \in 1..n : BeginsQuery(ls[i].text)
       /\ n < Len(ls) => ~BeginsQuery(ls[n + 1].text)
       /\ Len(params) = Cardinality(CarryingLines(ls, n))
       /\ \A i \in CarryingLines(ls, n) :
            <<params[rank(i)]>> = QueryParamsOf(ls[i].text)

\* an indented continuation and a bare ? are consumed, and a continuation
\* that follows the first other line is not
C15_Witness ==
  /\ output # <<>>
  /\ Len(GivenLines) = 3
  /\ GivenLines[1].text = <<" ", "?", "c">>
  /\ ~BeginsQuery(GivenLines[2].text)
  /\ BeginsQuery(GivenLines[3].text)
  /\ Outcome.consumedLinesCount = 1
  /\ Outcome.queryParams = <<[key |-> <<"c">>, value |-> <<>>]>>

\* ------------------------------------------------------------------------
\* Properties of HeaderParser.parse (SpecHeader)
\* ------------------------------------------------------------------------
HasColon(lineText) == \E i \in 1..Len(lineText) : lineText[i] = ":"

FirstColon(lineText) ==
  CHOOSE i \in 1..Len(lineText) :
    lineText[i] = ":" /\ \A j \in 1..(i - 1) : lineText[j] # ":"

\* the header a line with a colon spells: what precedes the first colon and
\* what follows it, both trimmed
HeaderWritten(lineText) ==
  [name |-> Trim(SubSeq(lineText, 1, FirstColon(lineText) - 1)),
   value |-> Trim(SubSeq(lineText, FirstColon(lineText) + 1, Len(lineText)))]

IsHeaderLine(lineText) == ~IsBlankText(lineText) /\ HasColon(lineText)

\* the consumed lines are the longest prefix of non-blank lines with a colon
ConsumesHeaderPrefix(ls, n) ==
  /\ n \in 0..Len(ls)
  /\ \A i \in 1..n : IsHeaderLine(ls[i].text)
  /\ n < Len(ls) => ~IsHeaderLine(ls[n + 1].text)

\* C16 as stated: HeaderParser.parse consumes exactly the longest prefix of
\* lines that are non-blank and contain a colon, the blank or colon-less
\* line it stops at is not counted, and it returns one header per consumed
\* line, in order.
C16_OneHeaderPerConsumedLine ==
  output # <<>> =>
    LET ls == GivenLines
        n == Outcome.consumedLinesCount
    IN /\ ConsumesHeaderPrefix(ls, n)
       /\ Len(Outcome.headers) = n
       /\ \A i \in 1..n : Outcome.headers[i] = HeaderWritten(ls[i].text)

\* the consumed lines whose header name is not empty
NamedLines(ls, n) ==
  {i \in 1..n : HasColon(ls[i].text) /\ HeaderWritten(ls[i].text).name # <<>>}

\* C16 amended: HeaderParser.parse consumes exactly the longest prefix of
\* lines that are non-blank and contain a colon, and returns one header per
\* consumed line whose name (the trimmed text before the first colon) is
\* not empty, in order; a consumed line with an empty name gives no header.
C16_OneHeaderPerNamedLine ==
  output # <<>> =>
    LET ls == GivenLines
        n == Outcome.consumedLinesCount
        rank(i) == Cardinality({j \in NamedLines(ls, n) : j <= i})
    IN /\ ConsumesHeaderPrefix(ls, n)
       /\ Len(Outcome.headers) = Cardinality(NamedLines(ls, n))
       /\ \A i \in NamedLines(ls, n) :
            Outcome.headers[rank(i)] = HeaderWritten(ls[i].text)

\* a line with an empty name is consumed between two headers and parsing
\* stops before a blank line
C16_Witness ==
  /\ output # <<>>
  /\ Len(GivenLines) = 3
  /\ GivenLines[1].text = <<":", " ", "v">>
  /\ GivenLines[2].text = <<"k", ":", "v", ":", "w">>
  /\ IsBlankText(GivenLines[3].text)
  /\ Outcome.consumedLinesCount = 2
  /\ Outcome.headers = <<[name |-> <<"k">>, value |-> <<"v", ":", "w">>]>>

\* ------------------------------------------------------------------------
\* Properties of SegmentParser.parseRequestSegment (SpecRequest)
\* ------------------------------------------------------------------------
\* the number of lines of the longest prefix of ls whose texts satisfy P
LongestPrefix(ls, P(_)) ==
  CHOOSE n \in 0..Len(ls) :
    /\ \A i \in 1..n : P(ls[i].text)
    /\ n < Len(ls) => ~P(ls[n + 1].text)

\* the lines of the only segment that follow the request line
AfterRequestLine == Tail(classifiedSegments[1].lines)

QueryLinesCount == LongestPrefix(AfterRequestLine, BeginsQuery)
HeaderLinesCount ==
  LongestPrefix(Drop(AfterRequestLine, QueryLinesCount), IsHeaderLine)

\* what follows the query and header lines, less one blank separator line
SequentialBodyLines ==
  LET rest == Drop(AfterRequestLine, QueryLinesCount + HeaderLinesCount)
  IN IF rest # <<>> /\ IsBlankText(rest[1].text) THEN Tail(rest) ELSE rest

SequentialBodyText ==
  Join([i \in 1..Len(SequentialBodyLines) |-> SequentialBodyLines[i].text], LF)

TheRequest == result[1].ast.requests[1]

\* C17: in a request segment the lines after the request line are consumed
\* one after the other: the query lines, then the header lines, then at most
\* one blank separator line, and every line after that is a body line, so
\* the body of the request is made of exactly those lines and is absent
\* only when they are all blank.
C17_LinesConsumedSequentially ==
  (pc = "done" /\ Len(classifiedSegments) = 1) =>
    /\ Len(result[1].ast.requests) = 1
    /\ Len(TheRequest.queryParams) <= QueryLinesCount
    /\ Len(TheRequest.headers) <= HeaderLinesCount
    /\ IF IsBlankText(SequentialBodyText)
       THEN TheRequest.body = None
       ELSE /\ TheRequest.body # None
            /\ TheRequest.body[1].raw = SequentialBodyText

\* ------------------------------------------------------------------------
\* Properties of the segments of a document (SpecMixed)
\* ------------------------------------------------------------------------
\* parseSegment threw on the segment n
FailedOnSegment(n) == pc = "thrown" /\ Len(parsedNodes) = n - 1

IsCurlRequest(c) == c.messageType = "request" /\ c.segmentType = "curl"

\* C18: a request segment classified curl does not make the parse fail, and
\* the node it yields is a Request with the method, the url, the headers
\* and the body that CurlParser.parse computes from the lines of the segment.
C18_CurlSegmentsParsedByCurlParser ==
  \A n \in 1..Len(classifiedSegments) :
    IsCurlRequest(classifiedSegments[n]) =>
      /\ ~FailedOnSegment(n)
      /\ n <= Len(parsedNodes) =>
           LET curl == CurlParser_parse(classifiedSegments[n].lines)
               node == parsedNodes[n]
           IN /\ curl # None
              /\ node # None
              /\ node[1].method = Some(curl[1].method)
              /\ node[1].url = curl[1].url
              /\ node[1].headers = curl[1].headers
              /\ (curl[1].body = None) <=> (node[1].body = None)
              /\ curl[1].body # None => node[1].body[1].raw = curl[1].body[1].raw

\* a request-typed segment made of blank, comment and directive lines only
IsCommentOnly(c) == c.messageType = "request" /\ ContentLines(c) = {}

\* the requests the document gives once its comment-only segments are left
\* out
RequestsOfOtherSegments ==
  LET others == SelectSeq(classifiedSegments, LAMBDA c : ~IsCommentOnly(c))
      nodes == parseSegments(others, 1)
  IN IF nodes.threw THEN nodes
     ELSE linkResponses(options.strict, nodes.value, 1, <<>>, 0)

\* C19: a request-typed segment whose lines are all blank, comment (# or //)
\* or directive lines yields no node and does not make the parse fail, and
\* the requests of the result, with the responses linked to them, are those
\* of the other segments.
C19_CommentOnlySegmentsAreSkipped ==
  /\ \A n \in 1..Len(classifiedSegments) :
       IsCommentOnly(classifiedSegments[n]) =>
         /\ ~FailedOnSegment(n)
         /\ n <= Len(parsedNodes) => parsedNodes[n] = None
  /\ pc = "done" =>
       RequestsOfOtherSegments = Returned(result[1].ast.requests)

\* ------------------------------------------------------------------------
\* Properties of the name and the comments of a Request (SpecDirectives)
\* ------------------------------------------------------------------------
\* what follows the # or // of a comment line, without the white space
\* around it
CommentContent(lineText) ==
  LET l == Trim(lineText)
  IN IF StartsWith(l, <<"/", "/">>) THEN Trim(Drop(l, 2)) ELSE Trim(Drop(l, 1))

\* a comment line whose content starts with @
IsDirectiveComment(lineText) ==
  IsCommentText(lineText) /\ StartsWith(CommentContent(lineText), <<"@">>)

IsPlainComment(lineText) ==
  IsCommentText(lineText) /\ ~IsDirectiveComment(lineText)

\* a line # @name X or // @name X
IsNameDirective(lineText) ==
  IsCommentText(lineText) /\ StartsWith(CommentContent(lineText), <<"@", "n", "a", "m", "e", " ">>)

DirectedName(lineText) == Trim(Drop(CommentContent(lineText), Len(<<"@", "n", "a", "m", "e", " ">>)))

\* the classified segment a request of the result was parsed from
SegmentOf(request) ==
  CHOOSE n \in 1..Len(classifiedSegments) :
    classifiedSegments[n].startLine = request.rawTextRange.startLine

NameDirectives(c) ==
  {i \in 1..Len(c.lines) : IsNameDirective(c.lines[i].text)}

\* C21: when the segment of a request has name directive lines (# @name X
\* or // @name X), the name of the request is the X of the first of them.
C21_FirstNameDirectiveWins ==
  pc = "done" =>
    \A k \in 1..Len(result[1].ast.requests) :
      LET request == result[1].ast.requests[k]
          c == classifiedSegments[SegmentOf(request)]
          first == CHOOSE i \in NameDirectives(c) :
                     \A j \in NameDirectives(c) : i <= j
      IN NameDirectives(c) # {} =>
           request.name = Some(DirectedName(c.lines[first].text))

\* C22: every entry of the comments of a request is the content of a plain
\* comment line of its segment: no directive line (a comment line whose
\* content starts with @) and no delimiter line contributes an entry.
C22_CommentsArePlainComments ==
  pc = "done" =>
    \A k \in 1..Len(result[1].ast.requests) :
      LET request == result[1].ast.requests[k]
          c == classifiedSegments[SegmentOf(request)]
      IN \A e \in 1..Len(request.comments) :
           /\ ~StartsWith(request.comments[e], <<"@">>)
           /\ \E i \in 1..Len(c.lines) :
                /\ IsPlainComment(c.lines[i].text)
                /\ ~isDelimiter(c.lines[i].text)
                /\ request.comments[e] = CommentContent(c.lines[i].text)

\* ------------------------------------------------------------------------
\* Properties of CurlParser.parse (SpecCurl)
\* ------------------------------------------------------------------------
\* the positions of the data flags in the given command
DataFlagPositions ==
  {k \in 1..Len(input[1].flags) : input[1].flags[k] \in DataFlags}

LastDataFlag ==
  CHOOSE k \in DataFlagPositions : \A j \in DataFlagPositions : j <= k

\* C23: for a curl command with one or more data flags, of whatever mix,
\* the body CurlParser.parse returns is the value of the data flag that
\* comes last in the command.
C23_LastDataFlagWins ==
  (output # <<>> /\ DataFlagPositions # {}) =>
    /\ Outcome # None
    /\ Outcome[1].body =
         Some([raw |-> CurlValue(input[1].flags[LastDataFlag], LastDataFlag)])

\* ------------------------------------------------------------------------
\* Properties of HTTPRequestLineParser.parse (SpecRequestLine)
\* ------------------------------------------------------------------------
GivenTokens == input[1].tokens

\* the token is a known method, in whatever case it is written
IsKnownMethod(token) == ToUpperCase(token) \in VALID_HTTP_METHODS

UrlOnlyForm(token) ==
  Returned([method |-> None, url |-> token, httpVersion |-> None])

\* what a line of two or more tokens yields
MethodUrlForm ==
  IF IsKnownMethod(GivenTokens[1])
  THEN Returned(
         [method |-> Some(ToUpperCase(GivenTokens[1])),
          url |-> GivenTokens[2],
          httpVersion |->
            IF Len(GivenTokens) >= 3 /\ StartsWith(GivenTokens[3], <<"H", "T", "T", "P", "/">>)
            THEN Some(GivenTokens[3]) ELSE None])
  ELSE Thrown("Invalid request line")

MethodIsNullOrKnown ==
  ~Outcome.threw =>
    \/ Outcome.value.method = None
    \/ Outcome.value.method[1] \in VALID_HTTP_METHODS

StatusCodes == 0..299

DecimalDigits == <<"0","1","2","3","4","5","6","7","8","9">>

RECURSIVE DecimalText(_)
DecimalText(n) ==
  IF n < 10 THEN <<DecimalDigits[n + 1]>>
  ELSE DecimalText(n \div 10) \o <<DecimalDigits[(n % 10) + 1]>>

\* the token is the decimal writing of a status code
IsWrittenCode(token) == \E n \in StatusCodes : DecimalText(n) = token
WrittenCode(token) == CHOOSE n \in StatusCodes : DecimalText(n) = token

LeadsWithVersion ==
  GivenTokens # <<>> /\ StartsWithIgnoringCase(GivenTokens[1], <<"H", "T", "T", "P", "/">>)

AfterVersion == IF LeadsWithVersion THEN Tail(GivenTokens) ELSE GivenTokens

CodeFollows == AfterVersion # <<>> /\ IsWrittenCode(AfterVersion[1])

AfterCode == IF CodeFollows THEN Tail(AfterVersion) ELSE AfterVersion

\* the response line with the version written as v
ResponseLineWith(v) ==
  [httpVersion |-> IF LeadsWithVersion THEN Some(v) ELSE None,
   statusCode |-> IF CodeFollows THEN Some(WrittenCode(AfterVersion[1]))
                  ELSE None,
   statusText |-> IF AfterCode # <<>> THEN Some(Join(AfterCode, <<" ">>))
                  ELSE None]

\* C25 as stated: the version is the first token when it starts with HTTP/
\* in any case, the status code is the next token when it is an integer,
\* the status text is the remaining tokens joined by single spaces; each
\* part is null when absent.
C25_VersionIsTheFirstToken ==
  output # <<>> =>
    Outcome = ResponseLineWith(IF GivenTokens = <<>> THEN <<>>
                               ELSE GivenTokens[1])

\* C25, amended: the version is the first token in upper case; the status
\* code is the next token when it is the decimal writing of an integer
\* (007 is not); the rest as stated.
C25_VersionIsUpperCased ==
  output # <<>> =>
    Outcome = ResponseLineWith(IF GivenTokens = <<>> THEN <<>>
                               ELSE ToUpperCase(GivenTokens[1]))

\* a lower-case version, a code and a text were parsed from a wide line
C25_Witness ==
  /\ output # <<>>
  /\ GivenTokens = <<<<"h", "t", "t", "p", "/", "1", ".", "1">>, <<"2", "0", "0">>, <<"O", "K">>>>
  /\ input[1].line # Join(GivenTokens, <<" ">>)
  /\ Outcome = [httpVersion |-> Some(<<"H", "T", "T", "P", "/", "1", ".", "1">>), statusCode |-> Some(200),
                statusText |-> Some(<<"O", "K">>)]

\* ------------------------------------------------------------------------
\* The number of lines LineScanner.scan returns (SpecScan)
\* ------------------------------------------------------------------------
\* the positions of the text where a line break ends: every line feed, and
\* every carriage return that no line feed follows
BreakEnds ==
  {p \in 1..Len(text) :
     \/ text[p] = "\n"
     \/ text[p] = "\r" /\ ~(p < Len(text) /\ text[p + 1] = "\n")}

\* C26: a text with B line breaks (CR LF being one break, a lone LF or CR
\* one each) is scanned into B + 1 lines numbered 1..B+1, no line text
\* holds a CR or an LF, and the empty text gives the single line
\* {lineNumber 1, startOffset 0, endOffset 0, text ''}.
C26_OneLineMoreThanBreaks ==
  pc = "scanned" =>
    /\ Len(lineContexts) = Cardinality(BreakEnds) + 1
    /\ \A k \in 1..Len(lineContexts) :
         /\ lineContexts[k].lineNumber = k
         /\ \A p \in 1..Len(lineContexts[k].text) :
              lineContexts[k].text[p] \notin {"\n", "\r"}
    /\ text = <<>> =>
         lineContexts = <<[lineNumber |-> 1, startOffset |-> 0,
                           endOffset |-> 0, text |-> <<>>]>>

\* a text with a lone LF, a CR LF and a lone CR was scanned into four lines
C26_Witness ==
  /\ pc = "scanned"
  /\ text = <<"\n", "\r", "\n", "\r">>
  /\ Len(lineContexts) = 4

\* ------------------------------------------------------------------------
\* Headers and query parameters come from content lines (SpecAnnotated)
\* ------------------------------------------------------------------------
\* the lines of the segment that are neither comments nor directives
ContentTexts(c) ==
  {c.lines[i].text : i \in {k \in 1..Len(c.lines) :
                              /\ ~IsCommentText(c.lines[k].text)
                              /\ ~IsDirectiveText(c.lines[k].text)}}

\* C27: in every request the segment parser produces, each header and each
\* query parameter comes from a content line of the segment; a comment line
\* or a directive or variable line after the request line yields none, even
\* when it holds a colon.
C27_HeadersComeFromContentLines ==
  pc = "done" =>
    \A r \in 1..Len(result[1].ast.requests) :
      LET request == result[1].ast.requests[r]
          content == ContentTexts(classifiedSegments[SegmentOf(request)])
      IN /\ \A h \in 1..Len(request.headers) :
              \E t \in content :
                HasColon(t) /\ HeaderWritten(t) = request.headers[h]
         /\ \A q \in 1..Len(request.queryParams) :
              \E t \in content : BeginsQuery(t)

\* ------------------------------------------------------------------------
\* The protocol of parseChunk, finalizeChunks and resetChunks (SpecChunks)
\* ------------------------------------------------------------------------
\* the position of the last resetChunks among the first n calls, 0 if none
LastReset(n) ==
  IF \E k \in 1..n : history[k].call = "resetChunks"
  THEN CHOOSE k \in 1..n :
         /\ history[k].call = "resetChunks"
         /\ \A j \in (k + 1)..n : history[j].call # "resetChunks"
  ELSE 0

\* finalizeChunks was called among the first n calls, after the last reset
FinalizedWithin(n) ==
  \E k \in (LastReset(n) + 1)..n : history[k].call = "finalizeChunks"

\* the chunks parseChunk took among the first n calls, after the last reset
RECURSIVE AcceptedChunks(_, _)
AcceptedChunks(k, n) ==
  IF k > n THEN <<>>
  ELSE IF history[k].call = "parseChunk" /\ ~history[k].threw
  THEN history[k].chunk.value \o AcceptedChunks(k + 1, n)
  ELSE AcceptedChunks(k + 1, n)

AcceptedSinceReset == AcceptedChunks(LastReset(Len(history)) + 1, Len(history))

\* the finalizeChunks call that ended gave what parseText gives
FinalizeGave(r) ==
  IF r.threw THEN pc = "thrown" /\ error = Some(r.message)
  ELSE pc = "done" /\ result = Some(r.value) /\ error = NoError

\* C28: once finalizeChunks was called every parseChunk call throws and
\* leaves the buffer as it is, until resetChunks is called; after
\* resetChunks the buffer is empty and string chunks are taken again; and
\* finalizeChunks returns the parse of the chunks taken since the last
\* reset, concatenated in the order of the calls.
C28_ChunkProtocol ==
  /\ \A n \in 1..Len(history) :
       history[n].call = "parseChunk" =>
         (history[n].threw <=>
            (FinalizedWithin(n - 1) \/ history[n].chunk.typeof # "string"))
  /\ incrementalState.buffer = AcceptedSinceReset
  /\ incrementalState.finalized = FinalizedWithin(Len(history))
  /\ (history # <<>> /\ history[Len(history)].call = "resetChunks") =>
       incrementalState.buffer = <<>>
  /\ (history # <<>> /\ history[Len(history)].call = "finalizeChunks"
        /\ pc \in {"done", "thrown"}) =>
       FinalizeGave(parseText(AcceptedSinceReset, options.strict))

\* a chunk was taken, finalizeChunks was called, a string chunk was refused,
\* and after resetChunks a chunk was taken again
C28_Witness ==
  /\ pc \in {"done", "thrown"}
  /\ \E n \in 2..(Len(history) - 3) :
       /\ history[n].call = "finalizeChunks"
       /\ history[n - 1].call = "parseChunk" /\ ~history[n - 1].threw
       /\ history[n + 1].call = "parseChunk" /\ history[n + 1].threw
       /\ history[n + 1].chunk.typeof = "string"
       /\ history[n + 2].call = "resetChunks"
       /\ history[n + 3].call = "parseChunk" /\ ~history[n + 3].threw
  /\ incrementalState.buffer # <<>>

\* ------------------------------------------------------------------------
\* The line count of the metadata (SpecRawText)
\* ------------------------------------------------------------------------
\* C29: for every text, whatever its line breaks (LF, CR LF, lone CR), the
\* line count of the metadata is the number of LineContext entries of the
\* same parse.
C29_MetadataCountsTheLines ==
  pc = "done" => result[1].metadata.lines = Len(lineContexts)

\* ------------------------------------------------------------------------
\* The classifier and the segment parser find the same line (SpecResponses)
\* ------------------------------------------------------------------------
\* the ExpectedResponse returned for a segment without a significant line
ZeroValueResponse(c) ==
  [statusCode |-> 0, statusText |-> None, httpVersion |-> None,
   headers |-> <<>>, body |-> None, variables |-> [fileVariables |-> <<>>],
   rawTextRange |-> [startLine |-> c.startLine, endLine |-> c.endLine]]

\* the segments that were parsed and that the classifier called a response
ParsedResponses ==
  {n \in 1..Len(parsedNodes) : classifiedSegments[n].messageType = "response"}

\* the node has the version, the code and the text the line spells
SpellsResponseLine(node, lineText) ==
  LET line == ResponseLineParser_parse(lineText)
  IN /\ node.httpVersion = line.httpVersion
     /\ node.statusCode =
          (IF line.statusCode = None THEN 0 ELSE line.statusCode[1])
     /\ node.statusText = line.statusText

\* C30: for every segment the classifier calls a response, the segment
\* parser finds a significant line and parses the anchor line of the
\* classifier as the response line; the zero-value ExpectedResponse of a
\* segment without a significant line is never produced.
C30_ParserParsesTheAnchor ==
  /\ \A n \in ParsedResponses :
       /\ parsedNodes[n] # None
       /\ isExpectedResponse(parsedNodes[n][1])
       /\ parsedNodes[n][1].httpVersion # None
       /\ SpellsResponseLine(parsedNodes[n][1],
                             classifiedSegments[n].firstNonEmptyLine.text)
  /\ \A n \in 1..Len(parsedNodes) :
       parsedNodes[n] # None =>
         parsedNodes[n][1] # ZeroValueResponse(classifiedSegments[n])

\* a response line on the third line, behind a variable line, was parsed
C30_Witness ==
  /\ pc = "done"
  /\ \E n \in ParsedResponses :
       /\ classifiedSegments[n].firstNonEmptyLine.lineNumber = 3
       /\ parsedNodes[n][1].statusCode = 200
       /\ Len(parsedNodes[n][1].variables.fileVariables) = 1

====
